---- MODULE Spec2Model ----
(***************************************************************************)
(* Incremental, checkpointed field extraction of the clinical-protocol     *)
(* extractor: IncrementalExtractor (extractor.py), CheckpointManager       *)
(* (checkpoint_manager.py) and ExtractionCheckpoint (schema.py).           *)
(*                                                                         *)
(* One (nct_number, pdf_type) key is modelled: its checkpoint file, the    *)
(* document text behind pdf_path, and a sequence of extraction runs, each  *)
(* of which may be killed between two steps or in the middle of a write.   *)
(* The field vocabulary is a five-field excerpt of CTGOV_FIELD_MAPPING     *)
(* that keeps one batched group, one single-field group and one field      *)
(* outside every group.                                                    *)
(***************************************************************************)
EXTENDS Integers, Sequences, FiniteSets, TLC

VARIABLES
    text,          \* current content of the document behind pdf_path
    pdf_path,      \* path of the document (its file name may hold an NCT number)
    disk,          \* the checkpoint file of the key
    cp,            \* the run's in-memory ExtractionCheckpoint: <<>> or <<c>>
    pc,            \* position of the run in extract_from_pdf
    field_groups,  \* groups still to process, the head being the current one
    idx,           \* index into the current group (marking and error handler)
    results,       \* oracle results not yet stored: sequence of <<field, value>>
    compare,       \* compare_immediately and ctgov_data, for this run
    returned,      \* what the last finished run returned: <<>> or <<c>>
    runs,          \* number of runs started
    attempted,     \* history: fields sent to the extraction oracle in this run
    fresh,         \* history: this run created a new checkpoint
    loaded,        \* history: the checkpoint this run resumed from: <<>> or <<c>>
    prior_failed,  \* history: fields the file held FAILED for this text
                   \* when the run began
    all_raised,    \* history: every oracle call of this run raised
    crashed,       \* history: <<>> or <<[old, new]>> of a save killed mid-write
    persist,       \* CheckpointManager: a checkpoint saved, loaded and saved again
    chunker,       \* IntelligentChunker.chunk_document: the loop's locals
    mapper,        \* ChunkMapper: chunk mappings and the extraction plan
    validator,     \* SmartValidator: one validate_extraction call and its result
    merger,        \* EnhancedUnifiedExtractor.merge_extractions: input and result
    comparator,    \* IntelligentComparator.compare_fields: one call and its result
    store,         \* the checkpoint directory and two runs on two keys
    loop,          \* extract_from_pdf: one group of the loop, query by query
    analyzer,      \* ChunkMapper.analyze_chunks: the loop over the chunks
    tiers          \* SmartValidator.validate_extraction: the tier of a field

extractor_vars ==
    <<text, pdf_path, disk, cp, pc, field_groups, idx, results, compare,
      returned, runs, attempted, fresh, loaded, prior_failed, all_raised,
      crashed>>

component_vars ==
    <<persist, chunker, mapper, validator, merger, comparator, store, loop,
      analyzer, tiers>>

vars == <<extractor_vars, component_vars>>

\* a component that is not in use
Off == [pc |-> "off"]

(* ------------------------------ bounds -------------------------------- *)
MaxRuns == 3

(* ----------------------------- schema.py ------------------------------ *)
PENDING == "pending"
IN_PROGRESS == "in_progress"
COMPLETED == "completed"
FAILED == "failed"
SKIPPED == "skipped"
ExtractionStatus == {PENDING, IN_PROGRESS, COMPLETED, FAILED, SKIPPED}

None == "None"

\* keys of CTGOV_FIELD_MAPPING, in insertion order (an excerpt)
FieldOrder ==
    <<"nct_number", "study_title", "acronym", "brief_summary",
      "primary_outcome_measures">>

Range(s) == {s[i] : i \in DOMAIN s}

CTGOV_FIELD_MAPPING == Range(FieldOrder)

PRIORITY_FIELDS ==
    <<"nct_number", "study_title", "brief_summary", "primary_outcome_measures">>

FieldExtraction(status, value, error_message, confidence, source_text) ==
    [status |-> status, value |-> value, error_message |-> error_message,
     confidence |-> confidence, source_text |-> source_text]

PendingField == FieldExtraction(PENDING, None, None, None, None)

Processed(c) == c.completed_fields + c.failed_fields + c.skipped_fields

\* faulty variant of is_complete: only completed fields are counted
is_complete_CompletedOnly(c) == c.completed_fields >= c.total_fields

is_complete(c) == Processed(c) >= c.total_fields

(* ------------------------- document and oracle ------------------------ *)
Texts == {"docA", "docB"}

PdfPaths == {"NCT00000001_Prot.pdf", "protocol.pdf"}

\* FilenameExtractor.extract_nct_number: the NCT\d{8} match of the base name
extract_nct_number(path) ==
    IF path = "NCT00000001_Prot.pdf" THEN "NCT00000001" ELSE None

\* CheckpointManager.compute_text_hash: distinct texts, distinct digests
compute_text_hash(t) == IF t = "docA" THEN "sha-docA" ELSE "sha-docB"

\* the value the oracle reads from text t
OracleValue(t) == IF t = "docA" THEN "value-docA" ELSE "value-docB"

\* outcomes of one oracle call for one field
OracleOutcomes == {"value", "not_found", "rejected", "raise"}

\* _extract_single_field_from_chunk / _extract_batch_fields: what the loop
\* receives for a field: the validated value, or None when the oracle said
\* NOT_FOUND, the validator rejected the value, or the call raised.
ExtractedValue(outcome, t) == IF outcome = "value" THEN OracleValue(t) ELSE None

(* ------------------------ checkpoint_manager.py ----------------------- *)
NoFile == [kind |-> "absent", data |-> <<>>]
Truncated == [kind |-> "truncated", data |-> <<>>]
File(c) == [kind |-> "file", data |-> <<c>>]

\* load_checkpoint: None for a missing file, and for a file json.load rejects
load_checkpoint(d) == IF d.kind = "file" THEN d.data ELSE <<>>

\* faulty variant of Counted: the counters move whatever the old status was
Counted_AnyOldStatus(old_status) == old_status \in ExtractionStatus

\* update_field_status, lines 116-123: which old statuses let a counter move
Counted(old_status) == old_status \in {PENDING, IN_PROGRESS}

BumpCounters(c, old_status, status) ==
    IF ~Counted(old_status) THEN c
    ELSE IF status = COMPLETED
        THEN [c EXCEPT !.completed_fields = @ + 1]
    ELSE IF status = FAILED
        THEN [c EXCEPT !.failed_fields = @ + 1]
    ELSE IF status = SKIPPED
        THEN [c EXCEPT !.skipped_fields = @ + 1]
    ELSE c

\* update_field_status without its trailing save
update_field_status(c, f, status, value, error_message) ==
    LET old == c.fields[f]
        new == [old EXCEPT
                  !.status = status,
                  !.value = IF value # None THEN value ELSE @,
                  !.error_message =
                      IF error_message # None THEN error_message ELSE @]
    IN  BumpCounters([c EXCEPT !.fields[f] = new], old.status, status)

\* save_checkpoint, lines 40-41: open(path, 'w') empties the file and json.dump
\* then writes it; a process killed in between leaves a file json.load rejects.
SavedFile(c, killed) == IF killed THEN Truncated ELSE File(c)

(* ----------------------- enhanced_prompt_builder_v2 ------------------- *)
\* the rows of get_optimal_field_groups over the modelled fields
GROUPS ==
    << <<"nct_number", "study_title", "acronym">>,
       <<"primary_outcome_measures">> >>

RECURSIVE GroupsOf(_, _)
GroupsOf(gs, remaining) ==
    IF gs = <<>> THEN <<>>
    ELSE LET group_fields == SelectSeq(Head(gs), LAMBDA f : f \in remaining)
         IN  IF group_fields = <<>>
             THEN GroupsOf(Tail(gs), remaining)
             ELSE <<group_fields>> \o
                  GroupsOf(Tail(gs), remaining \ Range(group_fields))

RECURSIVE Flat(_)
Flat(gs) == IF gs = <<>> THEN <<>> ELSE Head(gs) \o Flat(Tail(gs))

\* get_optimal_field_groups: the rows restricted to the requested fields, then
\* every requested field of no row alone (one such field is modelled, so the
\* iteration order of the remaining set does not show)
get_optimal_field_groups(field_names) ==
    LET grouped == GroupsOf(GROUPS, Range(field_names))
        rest == SelectSeq(field_names, LAMBDA f : f \notin Range(Flat(grouped)))
    IN  grouped \o [i \in 1..Len(rest) |-> <<rest[i]>>]

(* ------------------------------ extractor.py -------------------------- *)
\* faulty variant of IsPendingStatus: FAILED fields are selected again
IsPendingStatus_OrFailed(status) == status \in {PENDING, FAILED}

\* faulty variant of IsPendingStatus: COMPLETED fields are selected again
IsPendingStatus_OrCompleted(status) == status \in {PENDING, COMPLETED}

\* _get_pending_fields: which statuses are selected for extraction
IsPendingStatus(status) == status = PENDING

\* _get_pending_fields: priority fields first, then the others
_get_pending_fields(c) ==
    LET pending ==
            SelectSeq(PRIORITY_FIELDS,
                      LAMBDA f : f \in DOMAIN c.fields
                                 /\ IsPendingStatus(c.fields[f].status))
    IN  pending \o
        SelectSeq(FieldOrder,
                  LAMBDA f : IsPendingStatus(c.fields[f].status)
                             /\ f \notin Range(pending))

\* extract_from_pdf, lines 124-137: the field record built from the file name
PrepopulatedField(filename_nct) ==
    FieldExtraction(COMPLETED, filename_nct, None, "1.0", "filename")

\* extract_from_pdf, lines 103-137: the checkpoint created for a new run
NewCheckpoint(path, t) ==
    LET filename_nct == extract_nct_number(path)
        c == [pdf_path |-> path,
              total_fields |-> Cardinality(CTGOV_FIELD_MAPPING),
              completed_fields |-> 0,
              failed_fields |-> 0,
              skipped_fields |-> 0,
              fields |-> [f \in CTGOV_FIELD_MAPPING |-> PendingField],
              pdf_text_hash |-> compute_text_hash(t)]
    IN  IF filename_nct # None
        THEN [c EXCEPT !.fields["nct_number"] = PrepopulatedField(filename_nct),
                       !.completed_fields = @ + 1]
        ELSE c

\* extract_from_pdf, lines 98-100: a loaded checkpoint is kept only when its
\* hash is the hash of the text just read
KeepLoaded(ld, t) ==
    IF ld # <<>> /\ ld[1].pdf_text_hash = compute_text_hash(t) THEN ld ELSE <<>>

\* faulty variant of ResultStatus: a result is stored COMPLETED whatever its
\* value
ResultStatus_AlwaysCompleted(value) == COMPLETED

\* extract_from_pdf, lines 207 and 235: the status stored with a result (the
\* parsers have already turned every spelling of "not found" into None)
ResultStatus(value) == IF value # None THEN COMPLETED ELSE FAILED

\* FilenameExtractor.validate_extraction for nct_number: the file name wins
validate_extraction(value, path) ==
    LET filename_nct == extract_nct_number(path)
    IN  IF filename_nct # None /\ value # None /\ value # filename_nct
        THEN filename_nct ELSE value

(* ------------------------------ the runs ------------------------------ *)
Init ==
    /\ text \in Texts
    /\ pdf_path \in PdfPaths
    /\ disk = NoFile
    /\ cp = <<>>
    /\ pc = "idle"
    /\ field_groups = <<>>
    /\ idx = 1
    /\ results = <<>>
    /\ compare = FALSE
    /\ returned = <<>>
    /\ runs = 0
    /\ attempted = {}
    /\ fresh = FALSE
    /\ loaded = <<>>
    /\ prior_failed = {}
    /\ all_raised = TRUE
    /\ crashed = <<>>
    /\ persist = Off
    /\ chunker = Off
    /\ mapper = Off
    /\ validator = Off
    /\ merger = Off
    /\ comparator = Off
    /\ store = Off
    /\ loop = Off
    /\ analyzer = Off
    /\ tiers = Off

\* the fields a checkpoint file holds FAILED for text t
PriorFailed(d, t) ==
    LET ld == KeepLoaded(load_checkpoint(d), t)
    IN  IF ld = <<>> THEN {}
        ELSE {f \in DOMAIN ld[1].fields : ld[1].fields[f].status = FAILED}

\* the run is gone: its memory is lost, the file stays as it is
RunGone ==
    /\ pc' = "idle"
    /\ cp' = <<>>
    /\ field_groups' = <<>>
    /\ idx' = 1
    /\ results' = <<>>
    /\ compare' = FALSE
    /\ returned' = <<>>
    /\ attempted' = {}
    /\ fresh' = FALSE
    /\ loaded' = <<>>
    /\ prior_failed' = {}
    /\ all_raised' = TRUE
    /\ UNCHANGED component_vars

\* a save killed in the middle of the write of checkpoint c
KilledInSave(c) ==
    /\ disk' = SavedFile(c, TRUE)
    /\ crashed' = <<[old |-> disk, new |-> File(c)]>>
    /\ RunGone
    /\ UNCHANGED <<text, pdf_path>>

\* the loop moves on to the next group, or the run returns its checkpoint
NextGroup(c) ==
    /\ field_groups' = Tail(field_groups)
    /\ idx' = 1
    /\ results' = <<>>
    /\ pc' = IF Tail(field_groups) = <<>> THEN "done" ELSE "mark"
    /\ returned' = IF Tail(field_groups) = <<>> THEN <<c>> ELSE <<>>

\* the document is replaced between two runs
ChangeText ==
    /\ pc = "idle"
    /\ text' \in Texts \ {text}
    /\ UNCHANGED <<pdf_path, disk, cp, pc, field_groups, idx, results, compare,
                   returned, runs, attempted, fresh, loaded, prior_failed,
                   all_raised, crashed, component_vars>>

\* extract_from_pdf, lines 87-169, entered with checkpoint ld in hand
Begin(path, ld, cmp, killed) ==
    LET kept == KeepLoaded(ld, text)
        c == IF kept = <<>> THEN NewCheckpoint(path, text) ELSE kept[1]
        groups == get_optimal_field_groups(_get_pending_fields(c))
    IN  /\ runs < MaxRuns
        /\ killed => kept = <<>>
        /\ IF killed
           THEN KilledInSave(c) /\ runs' = runs + 1
           ELSE /\ disk' = IF kept = <<>> THEN SavedFile(c, FALSE) ELSE disk
                /\ cp' = <<c>>
                /\ field_groups' = groups
                /\ idx' = 1
                /\ results' = <<>>
                /\ compare' = cmp
                /\ pc' = IF groups = <<>> THEN "done" ELSE "mark"
                /\ returned' = IF groups = <<>> THEN <<c>> ELSE <<>>
                /\ runs' = runs + 1
                /\ attempted' = {}
                /\ fresh' = (kept = <<>>)
                /\ loaded' = kept
                /\ prior_failed' = PriorFailed(disk, text)
                /\ all_raised' = TRUE
                /\ crashed' = <<>>
                /\ UNCHANGED <<text, pdf_path, component_vars>>

\* extract_from_pdf(pdf_path, nct_number, pdf_type, resume, ...)
ExtractFromPdf ==
    /\ pc = "idle"
    /\ \E resume \in BOOLEAN, cmp \in BOOLEAN, killed \in BOOLEAN :
          Begin(pdf_path,
                IF resume THEN load_checkpoint(disk) ELSE <<>>, cmp, killed)

\* resume_extraction(nct_number, pdf_type)
ResumeExtraction ==
    /\ pc = "idle"
    /\ LET checkpoint == load_checkpoint(disk)
       IN  IF checkpoint = <<>> \/ is_complete(checkpoint[1])
           THEN /\ runs < MaxRuns
                /\ runs' = runs + 1
                /\ pc' = "done"
                /\ returned' = checkpoint
                /\ cp' = checkpoint
                /\ loaded' = checkpoint
                /\ prior_failed' = PriorFailed(disk, text)
                /\ crashed' = <<>>
                /\ UNCHANGED <<text, pdf_path, disk, field_groups, idx, results,
                               compare, attempted, fresh, all_raised,
                               component_vars>>
           ELSE \E killed \in BOOLEAN :
                    Begin(checkpoint[1].pdf_path, checkpoint, FALSE, killed)

\* a completed update_field_status: the checkpoint is changed and saved
Saved(c) ==
    /\ cp' = <<c>>
    /\ disk' = SavedFile(c, FALSE)
    /\ UNCHANGED <<text, pdf_path, runs, compare, fresh, loaded, prior_failed,
                   crashed, component_vars>>

\* extract_from_pdf, lines 177-180: one field of the group goes IN_PROGRESS
MarkInProgress ==
    /\ pc = "mark"
    /\ LET field_group == Head(field_groups)
           c == update_field_status(cp[1], field_group[idx], IN_PROGRESS,
                                    None, None)
       IN  \E killed \in BOOLEAN :
             IF killed
             THEN KilledInSave(c) /\ UNCHANGED runs
             ELSE /\ Saved(c)
                  /\ idx' = IF idx = Len(field_group) THEN 1 ELSE idx + 1
                  /\ pc' = IF idx = Len(field_group) THEN "extract" ELSE "mark"
                  /\ UNCHANGED <<field_groups, results, returned, attempted,
                                 all_raised>>

Perms(g) ==
    {p \in [1..Len(g) -> 1..Len(g)] : \A i, j \in 1..Len(g) : p[i] = p[j] => i = j}

\* extract_from_pdf, lines 183-203: the oracle call for a single-field group
ExtractSingle ==
    /\ pc = "extract"
    /\ Len(Head(field_groups)) = 1
    /\ LET field_name == Head(field_groups)[1]
       IN  \E outcome \in OracleOutcomes :
             LET value == ExtractedValue(outcome, text)
                 checked == IF field_name = "nct_number"
                            THEN validate_extraction(value, cp[1].pdf_path)
                            ELSE value
             IN  /\ results' = << <<field_name, checked>> >>
                 /\ attempted' = attempted \cup {field_name}
                 /\ all_raised' = (all_raised /\ outcome = "raise")
    /\ pc' = "store"
    /\ UNCHANGED <<text, pdf_path, disk, cp, field_groups, idx, compare,
                   returned, runs, fresh, loaded, prior_failed, crashed,
                   component_vars>>

\* extract_from_pdf, lines 216-230, and _extract_batch_fields: one oracle call
\* for the whole group; a raising call gives None for every field, a parsed
\* answer gives the fields in the order of its lines
ExtractBatch ==
    /\ pc = "extract"
    /\ Len(Head(field_groups)) > 1
    /\ LET field_group == Head(field_groups)
           n == Len(field_group)
       IN  \/ /\ results' = [i \in 1..n |-> <<field_group[i], None>>]
              /\ all_raised' = all_raised
           \/ \E p \in Perms(field_group),
                 outcome \in [1..n -> OracleOutcomes \ {"raise"}] :
                /\ results' =
                     [i \in 1..n |->
                        <<field_group[p[i]], ExtractedValue(outcome[i], text)>>]
                /\ all_raised' = FALSE
    /\ attempted' = attempted \cup Range(Head(field_groups))
    /\ pc' = "store"
    /\ UNCHANGED <<text, pdf_path, disk, cp, field_groups, idx, compare,
                   returned, runs, fresh, loaded, prior_failed, crashed,
                   component_vars>>

\* extract_from_pdf, lines 205-213 and 232-241: the head result is stored and
\* saved, then compared with the reference record; _compare_field may raise
StoreResult ==
    /\ pc = "store"
    /\ LET field_name == Head(results)[1]
           value == Head(results)[2]
           c == update_field_status(cp[1], field_name, ResultStatus(value),
                                    value, None)
       IN  \E killed \in BOOLEAN, compare_raises \in BOOLEAN :
             /\ compare_raises => (~killed /\ compare /\ value # None)
             /\ IF killed
                THEN KilledInSave(c) /\ UNCHANGED runs
                ELSE /\ Saved(c)
                     /\ UNCHANGED <<attempted, all_raised>>
                     /\ IF compare_raises
                        THEN /\ pc' = "handler"
                             /\ idx' = 1
                             /\ results' = <<>>
                             /\ UNCHANGED <<field_groups, returned>>
                        ELSE IF Tail(results) # <<>>
                        THEN /\ results' = Tail(results)
                             /\ UNCHANGED <<pc, idx, field_groups, returned>>
                        ELSE NextGroup(c)

\* extract_from_pdf, lines 247-255: after an exception in the group, one field
\* of the group is marked FAILED with the exception's text
MarkFailed ==
    /\ pc = "handler"
    /\ LET field_group == Head(field_groups)
           c == update_field_status(cp[1], field_group[idx], FAILED, None,
                                    "exception")
       IN  \E killed \in BOOLEAN :
             IF killed
             THEN KilledInSave(c) /\ UNCHANGED runs
             ELSE /\ Saved(c)
                  /\ UNCHANGED <<attempted, all_raised>>
                  /\ IF idx < Len(field_group)
                     THEN /\ idx' = idx + 1
                          /\ UNCHANGED <<pc, field_groups, results, returned>>
                     ELSE NextGroup(c)

\* the process is killed between two steps of the loop
Interrupt ==
    /\ pc \in {"mark", "extract", "store", "handler"}
    /\ RunGone
    /\ UNCHANGED <<text, pdf_path, disk, runs, crashed>>

\* the run has returned; the caller drops the checkpoint
Return ==
    /\ pc = "done"
    /\ RunGone
    /\ UNCHANGED <<text, pdf_path, disk, runs, crashed>>

Next ==
    \/ ChangeText
    \/ ExtractFromPdf
    \/ ResumeExtraction
    \/ MarkInProgress
    \/ ExtractSingle
    \/ ExtractBatch
    \/ StoreResult
    \/ MarkFailed
    \/ Interrupt
    \/ Return

Spec == Init /\ [][Next]_vars

(* ------------------------------ properties ---------------------------- *)
\* the checkpoints in existence: the run's, the persisted one, the returned one
LiveCheckpoints ==
    Range(cp) \cup Range(load_checkpoint(disk)) \cup Range(returned)

FieldsWith(c, status) == {f \in DOMAIN c.fields : c.fields[f].status = status}

\* C1: within one run, a field that is COMPLETED stays COMPLETED with the
\* same value at every later step of that run.
C1_CompletionMonotonic ==
    [][(cp # <<>> /\ cp' # <<>>) =>
         \A f \in CTGOV_FIELD_MAPPING :
            cp[1].fields[f].status = COMPLETED =>
               /\ cp'[1].fields[f].status = COMPLETED
               /\ cp'[1].fields[f].value = cp[1].fields[f].value]_vars

\* C2: the checkpoint a run works on or returns was built for the current
\* text: its hash is the hash of the text and every COMPLETED value in it was
\* read from this text (or taken from the file name), never from an earlier
\* text.
C2_NoStaleCheckpoint ==
    \A c \in Range(cp) \cup Range(returned) :
       /\ c.pdf_text_hash = compute_text_hash(text)
       /\ \A f \in FieldsWith(c, COMPLETED) :
             c.fields[f].value \in
                {OracleValue(text), extract_nct_number(c.pdf_path)}

\* C3: in every checkpoint, in memory, persisted or returned,
\* completed_fields + failed_fields + skipped_fields <= total_fields.
C3_CountersBounded ==
    \A c \in LiveCheckpoints : Processed(c) <= c.total_fields

\* C3 witness: a resumed run has returned a checkpoint in which the group error
\* handler marked a field FAILED that already held a value, and every field
\* is counted.
C3_Witness ==
    /\ pc = "done"
    /\ ~fresh
    /\ returned # <<>>
    /\ Processed(returned[1]) = returned[1].total_fields
    /\ \E f \in FieldsWith(returned[1], FAILED) :
          /\ returned[1].fields[f].error_message # None
          /\ returned[1].fields[f].value # None

\* C4: in every checkpoint, is_complete is true exactly when
\* completed_fields + failed_fields + skipped_fields = total_fields.
C4_IsCompleteIffAllCounted ==
    \A c \in LiveCheckpoints : is_complete(c) <=> Processed(c) = c.total_fields

\* C4 witness: a run has returned a complete checkpoint that holds both
\* completed and failed fields.
C4_Witness ==
    /\ pc = "done"
    /\ returned # <<>>
    /\ is_complete(returned[1])
    /\ returned[1].completed_fields > 0
    /\ returned[1].failed_fields > 0

\* the fields extract_from_pdf fills from the file name instead of the oracle
Prepopulated(path) ==
    IF extract_nct_number(path) # None THEN {"nct_number"} ELSE {}

LegalTransitions ==
    {<<PENDING, IN_PROGRESS>>, <<IN_PROGRESS, COMPLETED>>,
     <<IN_PROGRESS, FAILED>>, <<PENDING, SKIPPED>>}

\* C5: within one run every status change of a field is PENDING->IN_PROGRESS,
\* IN_PROGRESS->COMPLETED, IN_PROGRESS->FAILED or PENDING->SKIPPED (a field of
\* a new checkpoint starting PENDING), and a field filled from the file name
\* is SKIPPED, counted in skipped_fields and never sent to the oracle.
C5_LegalTransitions ==
    [][(cp' # <<>> /\ (cp # <<>> \/ fresh')) =>
         /\ \A f \in CTGOV_FIELD_MAPPING :
               LET before == IF cp = <<>> THEN PENDING
                             ELSE cp[1].fields[f].status
                   after == cp'[1].fields[f].status
               IN  before = after \/ <<before, after>> \in LegalTransitions
         /\ fresh' =>
               /\ Prepopulated(cp'[1].pdf_path) = FieldsWith(cp'[1], SKIPPED)
               /\ cp'[1].skipped_fields =
                     Cardinality(Prepopulated(cp'[1].pdf_path))
               /\ Prepopulated(cp'[1].pdf_path) \cap attempted' = {}]_vars

\* the fields whose oracle result the run holds but has not yet stored
Unstored == {results[i][1] : i \in DOMAIN results}

\* C6: at every point where a run can be interrupted, the persisted checkpoint
\* has at most one field that is IN_PROGRESS or whose oracle result is not
\* yet stored, and every other field is persisted as the run holds it.
C6_AtMostOneFieldInFlight ==
    (pc \in {"mark", "extract", "store", "handler"}) =>
        /\ disk.kind = "file"
        /\ LET d == disk.data[1]
               open == FieldsWith(d, IN_PROGRESS) \cup Unstored
           IN  /\ Cardinality(open) <= 1
               /\ \A f \in CTGOV_FIELD_MAPPING \ open :
                     d.fields[f] = cp[1].fields[f]

\* C7: after a process is killed during save_checkpoint, load_checkpoint gives
\* the checkpoint saved before or the checkpoint being saved.
C7_SaveAtomic ==
    crashed # <<>> =>
        load_checkpoint(disk) \in
            {load_checkpoint(crashed[1].old), load_checkpoint(crashed[1].new)}

\* C8: a run that resumes a checkpoint attempts every field the checkpoint
\* holds IN_PROGRESS, and when it returns no field is IN_PROGRESS or PENDING
\* and the checkpoint is complete.
C8_InProgressRetried ==
    (pc = "done" /\ returned # <<>>) =>
        /\ loaded # <<>> =>
              FieldsWith(loaded[1], IN_PROGRESS) \subseteq attempted
        /\ FieldsWith(returned[1], IN_PROGRESS) = {}
        /\ FieldsWith(returned[1], PENDING) = {}
        /\ is_complete(returned[1])

\* C9 as stated: a run on unchanged text that returns has attempted every
\* field the persisted checkpoint held FAILED when the run began.
C9_FailedRetried ==
    (pc = "done" /\ returned # <<>>) => prior_failed \subseteq attempted

\* C9 amended: a run that builds a new checkpoint attempts every field not
\* filled from the file name, so also those the file held FAILED; a run that
\* resumes the persisted checkpoint never sends a FAILED field of it to the
\* oracle and leaves that field as it was loaded.
C9_FailedRetriedOnlyWhenFresh ==
    /\ (pc = "done" /\ fresh) =>
          attempted = CTGOV_FIELD_MAPPING \ Prepopulated(returned[1].pdf_path)
    /\ (cp # <<>> /\ ~fresh) =>
          \A f \in FieldsWith(loaded[1], FAILED) :
             /\ f \notin attempted
             /\ cp[1].fields[f] = loaded[1].fields[f]

\* C9 witness: a run with resume off has returned, and a field the file held
\* FAILED for this same text is now COMPLETED.
C9_Witness ==
    /\ pc = "done"
    /\ fresh
    /\ \E f \in prior_failed : returned[1].fields[f].status = COMPLETED

C27_CountersMatchStatuses ==
    \A c \in LiveCheckpoints :
       /\ c.completed_fields = Cardinality(FieldsWith(c, COMPLETED))
       /\ c.failed_fields = Cardinality(FieldsWith(c, FAILED))
       /\ c.skipped_fields = Cardinality(FieldsWith(c, SKIPPED))

\* the fields of checkpoint c that a resumed run must leave alone
Settled(c) == FieldsWith(c, COMPLETED) \cup FieldsWith(c, SKIPPED)

\* C28: a run that resumes a persisted checkpoint (its hash being the hash of
\* the current text) leaves every field the loaded checkpoint holds COMPLETED
\* or SKIPPED exactly as loaded and never sends it to the oracle; the fields
\* the run changes or sends to the oracle were PENDING when loaded.
C28_ResumeKeepsSettledFields ==
    (cp # <<>> /\ ~fresh /\ loaded # <<>>) =>
        /\ \A f \in Settled(loaded[1]) :
              /\ cp[1].fields[f] = loaded[1].fields[f]
              /\ f \notin attempted
        /\ \A f \in CTGOV_FIELD_MAPPING :
              (cp[1].fields[f] # loaded[1].fields[f] \/ f \in attempted) =>
                 loaded[1].fields[f].status = PENDING

\* C28 witness: a resumed run has returned; the checkpoint it loaded held a
\* COMPLETED field, and a field that was PENDING then is COMPLETED now.
C28_Witness ==
    /\ pc = "done"
    /\ ~fresh
    /\ loaded # <<>>
    /\ attempted # {}
    /\ FieldsWith(loaded[1], COMPLETED) # {}
    /\ \E f \in FieldsWith(loaded[1], PENDING) :
          returned[1].fields[f].status = COMPLETED

(* ===================================================================== *)
(* The other components are pure functions of their arguments. Each has  *)
(* a specification of its own in which the extraction runs above stand   *)
(* still, the arguments are drawn from bounded sets and the actions are  *)
(* the steps of the function.                                            *)
(* ===================================================================== *)
\* no extraction run exists
ExtractorIdle ==
    /\ text = "docA"
    /\ pdf_path = "protocol.pdf"
    /\ disk = NoFile
    /\ cp = <<>>
    /\ pc = "idle"
    /\ field_groups = <<>>
    /\ idx = 1
    /\ results = <<>>
    /\ compare = FALSE
    /\ returned = <<>>
    /\ runs = 0
    /\ attempted = {}
    /\ fresh = FALSE
    /\ loaded = <<>>
    /\ prior_failed = {}
    /\ all_raised = TRUE
    /\ crashed = <<>>

(* ------------- checkpoint_manager.py: save, load, save again ---------- *)
\* the latest reading of the clock
MaxClock == 3

\* microsecond parts of a datetime (0: isoformat leaves the fraction out)
Microseconds == {0, 5}

datetime(second, microsecond) == [second |-> second, microsecond |-> microsecond]

\* faulty variant of datetime_handler: the fraction of a second is not written
datetime_handler_Seconds(obj) == <<obj.second>>

\* save_checkpoint, lines 35-38: datetime.isoformat(), a text whose fraction
\* part is present only when microsecond is not 0
datetime_handler(obj) ==
    IF obj.microsecond = 0 THEN <<obj.second>>
    ELSE <<obj.second, obj.microsecond>>

\* datetime.fromisoformat of such a text
fromisoformat(iso) ==
    datetime(iso[1], IF Len(iso) = 1 THEN 0 ELSE iso[2])

\* an Optional[datetime] as json.dump writes it: null, or the ISO text
DumpTime(opt) == IF opt = <<>> THEN <<>> ELSE <<datetime_handler(opt[1])>>

\* load_checkpoint, lines 61-69: a date entry that is present and not null is
\* parsed back
ParseTime(js) == IF js = <<>> THEN <<>> ELSE <<fromisoformat(js[1])>>

\* the JSON object of one FieldExtraction
DumpField(fe) == [fe EXCEPT !.extraction_time = DumpTime(@)]

ParseField(js) == [js EXCEPT !.extraction_time = ParseTime(@)]

\* save_checkpoint, lines 32-41: model_dump() and json.dump with
\* datetime_handler; every other entry is a str, an int, a float or None and
\* is written as such
json_dump(c) ==
    [c EXCEPT !.start_time = datetime_handler(@),
              !.last_update = datetime_handler(@),
              !.fields = [f \in DOMAIN @ |-> DumpField(@[f])]]

\* load_checkpoint, lines 58-72: json.load, the dates parsed back, and
\* ExtractionCheckpoint(**checkpoint_dict)
json_load(js) ==
    [js EXCEPT !.start_time = fromisoformat(@),
               !.last_update = fromisoformat(@),
               !.fields = [f \in DOMAIN @ |-> ParseField(@[f])]]

\* save_checkpoint: last_update is set, then the file is written
save_checkpoint(c, now) == json_dump([c EXCEPT !.last_update = now])

\* FieldExtraction records as the extraction loop leaves them
TimedFields ==
    {[status |-> PENDING, value |-> None, error_message |-> None,
      extraction_time |-> <<>>, confidence |-> None, source_text |-> None]}
    \cup
    {[status |-> st, value |-> v, error_message |-> e,
      extraction_time |-> <<datetime(1, us)>>, confidence |-> None,
      source_text |-> None] :
        st \in {IN_PROGRESS, FAILED}, v \in {None}, e \in {None, "exception"},
        us \in Microseconds}
    \cup
    {[status |-> COMPLETED, value |-> v, error_message |-> None,
      extraction_time |-> <<datetime(1, us)>>, confidence |-> cf,
      source_text |-> src] :
        v \in {"value-docA"}, us \in Microseconds,
        cf \in {None, "1.0"}, src \in {None, "filename"}}

PersistFields == {"nct_number", "study_title"}

CountOf(fields, status) ==
    Cardinality({f \in DOMAIN fields : fields[f].status = status})

\* checkpoints as extract_from_pdf and update_field_status build them
TimedCheckpoints ==
    {[nct_number |-> "NCT00000001", pdf_path |-> "protocol.pdf",
      pdf_type |-> "Protocol",
      total_fields |-> Cardinality(PersistFields),
      completed_fields |-> CountOf(fields, COMPLETED),
      failed_fields |-> CountOf(fields, FAILED),
      skipped_fields |-> 0,
      start_time |-> datetime(0, us),
      last_update |-> datetime(1, us),
      fields |-> fields,
      pdf_text_hash |-> compute_text_hash("docA")] :
        fields \in [PersistFields -> TimedFields], us \in Microseconds}

PersistInit ==
    /\ persist \in
         {[pc |-> "new", c |-> c, file |-> <<>>, first |-> <<>>,
           reloaded |-> <<>>, clock |-> 1] : c \in TimedCheckpoints}
    /\ ExtractorIdle
    /\ chunker = Off
    /\ mapper = Off
    /\ validator = Off
    /\ merger = Off
    /\ comparator = Off
    /\ store = Off
    /\ loop = Off
    /\ analyzer = Off
    /\ tiers = Off

PersistFrame ==
    UNCHANGED
        <<extractor_vars, chunker, mapper, validator, merger, comparator,
          store, loop, analyzer, tiers>>

\* datetime.now(): later than every earlier reading
Now(clock) == {datetime(s, us) : s \in (clock + 1)..MaxClock, us \in Microseconds}

\* save_checkpoint(c)
PersistSave ==
    /\ persist.pc = "new"
    /\ \E now \in Now(persist.clock) :
          LET js == save_checkpoint(persist.c, now)
          IN  persist' = [persist EXCEPT !.pc = "saved",
                                         !.c.last_update = now,
                                         !.file = <<js>>,
                                         !.first = <<js>>,
                                         !.clock = now.second]
    /\ PersistFrame

\* load_checkpoint(nct_number, pdf_type)
PersistLoad ==
    /\ persist.pc = "saved"
    /\ persist' = [persist EXCEPT !.pc = "loaded",
                                  !.reloaded = <<json_load(persist.file[1])>>]
    /\ PersistFrame

\* save_checkpoint of the loaded checkpoint, nothing changed in between
PersistSaveAgain ==
    /\ persist.pc = "loaded"
    /\ \E now \in Now(persist.clock) :
          persist' =
             [persist EXCEPT !.pc = "saved again",
                             !.reloaded[1].last_update = now,
                             !.file = <<save_checkpoint(persist.reloaded[1], now)>>,
                             !.clock = now.second]
    /\ PersistFrame

PersistNext ==
    \/ PersistSave
    \/ PersistLoad
    \/ PersistSaveAgain

PersistSpec == PersistInit /\ [][PersistNext]_vars

\* a structure with its last_update blanked
UpToLastUpdate(x) == [x EXCEPT !.last_update = <<>>]

\* C11: a checkpoint saved, loaded and saved again without a change gives a
\* persisted structure equal to the first in every entry except last_update,
\* and the loaded checkpoint equals the saved one up to last_update.
C11_RoundTrip ==
    /\ persist.pc = "loaded" =>
          UpToLastUpdate(persist.reloaded[1]) = UpToLastUpdate(persist.c)
    /\ persist.pc = "saved again" =>
          UpToLastUpdate(persist.file[1]) = UpToLastUpdate(persist.first[1])

\* C11 witness: a checkpoint holding a field never extracted and a field
\* extracted at a time with a fraction of a second has been saved, loaded and
\* saved again, and the two files differ (in last_update).
C11_Witness ==
    /\ persist.pc = "saved again"
    /\ persist.file # persist.first
    /\ \E f, g \in PersistFields :
          /\ persist.c.fields[f].extraction_time = <<>>
          /\ persist.c.fields[g].extraction_time # <<>>
          /\ persist.c.fields[g].extraction_time[1].microsecond # 0
          /\ persist.c.start_time.microsecond # 0

(* -------------- intelligent_chunker.py: chunk_document --------------- *)
\* the most chunks a call is followed for
MaxChunks == 6

\* chunk_document, line 77: how far before the target end a paragraph break
\* is looked for
ParagraphWindow == 500

\* chunk_document, line 82: the same for a sentence break
SentenceWindow == 200

\* len('\n\n') and len('. ')
BreakLen == 2

\* (chunk_size, overlap_size) with chunk_size > overlap_size >= 0
ChunkSizes ==
    {<<50000, 1000>>, <<1000, 100>>, <<1000, 0>>, <<600, 200>>, <<300, 100>>}

\* a text is its length and the positions at which '\n\n' and '. ' occur
ChunkTexts ==
    {[len |-> n, paragraph |-> ps, sentence |-> ss] :
        n \in {0, 350, 1300, 2600, 120000},
        ps \in SUBSET {100, 700}, ss \in SUBSET {250, 950}}

RealText(t) == \A p \in t.paragraph \cup t.sentence : p + BreakLen <= t.len

SetMax(S) == CHOOSE x \in S : \A y \in S : y <= x

\* a slice index as Python reads it: a negative one counts from the end, and
\* the result is clipped to 0..n
SliceIndex(i, n) ==
    IF i < 0 THEN (IF i + n < 0 THEN 0 ELSE i + n)
    ELSE IF i > n THEN n ELSE i

\* str.rfind(sub, start, end): the highest occurrence lying wholly inside
\* text[start:end], or -1
rfind(occurrences, n, start, end) ==
    LET lo == SliceIndex(start, n)
        hi == SliceIndex(end, n)
        inside == {p \in occurrences : lo <= p /\ p + BreakLen <= hi}
    IN  IF inside = {} THEN -1 ELSE SetMax(inside)

\* text[start:end]: the span of positions the slice holds
Slice(n, start, end) ==
    LET lo == SliceIndex(start, n)
        hi == SliceIndex(end, n)
    IN  IF lo < hi THEN [from |-> lo, to |-> hi] ELSE [from |-> 0, to |-> 0]

\* faulty variant of Min2: the end position is not clipped to the text
Min2_Unclipped(a, b) == a

Min2(a, b) == IF a < b THEN a ELSE b

\* chunk_document, lines 75-85: the end position moved back to just after a
\* paragraph break or, failing that, a sentence break
BreakEnd(t, chunk_size, start_pos, end_pos) ==
    LET paragraph_break ==
            rfind(t.paragraph, t.len, start_pos + chunk_size - ParagraphWindow,
                  end_pos)
        sentence_break ==
            rfind(t.sentence, t.len, start_pos + chunk_size - SentenceWindow,
                  end_pos)
    IN  IF paragraph_break > start_pos THEN paragraph_break + BreakLen
        ELSE IF sentence_break > start_pos THEN sentence_break + BreakLen
        ELSE end_pos

\* chunk_document, lines 72-85
EndPos(t, chunk_size, start_pos) ==
    LET end_pos == Min2(start_pos + chunk_size, t.len)
    IN  IF end_pos < t.len THEN BreakEnd(t, chunk_size, start_pos, end_pos)
        ELSE end_pos

DocumentChunk(chunk_id, chunk_text, start_char, end_char) ==
    [chunk_id |-> chunk_id, text |-> chunk_text, start_char |-> start_char,
     end_char |-> end_char]

ChunkerInit ==
    /\ chunker \in
         {[pc |-> "call", text |-> t, chunk_size |-> sz[1],
           overlap_size |-> sz[2], start_pos |-> 0, chunk_id |-> 0,
           chunks |-> <<>>] : t \in {x \in ChunkTexts : RealText(x)},
                              sz \in ChunkSizes}
    /\ ExtractorIdle
    /\ persist = Off
    /\ mapper = Off
    /\ validator = Off
    /\ merger = Off
    /\ comparator = Off
    /\ store = Off
    /\ loop = Off
    /\ analyzer = Off
    /\ tiers = Off

ChunkerFrame ==
    UNCHANGED
        <<extractor_vars, persist, mapper, validator, merger, comparator,
          store, loop, analyzer, tiers>>

\* chunk_document, lines 65-70: an empty text returns at once
ChunkDocument ==
    /\ chunker.pc = "call"
    /\ chunker' = [chunker EXCEPT
                     !.pc = IF chunker.text.len = 0 THEN "returned" ELSE "loop"]
    /\ ChunkerFrame

\* chunk_document, lines 72-112: one pass of the while loop
ChunkLoop ==
    /\ chunker.pc = "loop"
    /\ Len(chunker.chunks) < MaxChunks
    /\ LET t == chunker.text
           start_pos == chunker.start_pos
           end_pos == EndPos(t, chunker.chunk_size, start_pos)
           chunk == DocumentChunk(chunker.chunk_id,
                                  Slice(t.len, start_pos, end_pos),
                                  start_pos, end_pos)
           next_pos == end_pos - chunker.overlap_size
       IN  chunker' = [chunker EXCEPT
                         !.chunks = Append(@, chunk),
                         !.start_pos = next_pos,
                         !.chunk_id = @ + 1,
                         !.pc = IF end_pos >= t.len \/ ~(next_pos < t.len)
                                THEN "returned" ELSE "loop"]
    /\ ChunkerFrame

ChunkerNext ==
    \/ ChunkDocument
    \/ ChunkLoop

ChunkerSpec == ChunkerInit /\ [][ChunkerNext]_vars

C13_StartsIncrease ==
    /\ \A k \in 1..(Len(chunker.chunks) - 1) :
          chunker.chunks[k].start_char < chunker.chunks[k + 1].start_char
    /\ chunker.pc = "loop" =>
          \A k \in DOMAIN chunker.chunks :
             chunker.chunks[k].start_char < chunker.start_pos
    /\ (chunker.pc = "returned" /\ chunker.text.len = 0) => chunker.chunks = <<>>

(* ---------------- chunk_mapper.py: create_extraction_plan ------------- *)
\* TARGET_FIELDS, in the order of the list (an excerpt)
TARGET_FIELDS == <<"enrollment", "sponsor">>

\* confidences are written in hundredths: 0.9 is 90
\* get_best_chunk_for_field, line 185: the confidence of a listed field that
\* has no score
DefaultConfidence == 50

\* get_best_chunk_for_field, line 181: best_confidence before the loop
InitialBest == 0

Confidences == {0, 70, 90}

\* what one chunk's analysis says of one field: listed or not, scored or not
FieldViews ==
    {[listed |-> l, score |-> s] :
        l \in BOOLEAN, s \in {<<>>} \cup {<<c>> : c \in Confidences}}

ChunkMapping(chunk_id, views) ==
    [chunk_id |-> chunk_id,
     identified_fields |-> {f \in DOMAIN views : views[f].listed},
     confidence_scores |-> [f \in {g \in DOMAIN views : views[g].score # <<>>}
                              |-> views[f].score[1]]]

\* the chunk ids of the mappings, in the order analyze_chunks returns them
ChunkIdLists == {<<2>>, <<0, 1>>}

MappingLists ==
    UNION {{[i \in DOMAIN ids |-> ChunkMapping(ids[i], views[i])] :
              views \in [DOMAIN ids -> [Range(TARGET_FIELDS) -> FieldViews]]} :
           ids \in ChunkIdLists}

\* dict.get(key, default)
DictGet(d, key, default) == IF key \in DOMAIN d THEN d[key] ELSE default

\* get_best_chunk_for_field, lines 183-188: the loop over the mappings, carrying
\* (best_chunk_id, best_confidence); <<>> is None
RECURSIVE BestFrom(_, _, _, _)
BestFrom(field_name, mappings, best_chunk_id, best_confidence) ==
    IF mappings = <<>> THEN best_chunk_id
    ELSE LET mapping == Head(mappings)
             confidence == DictGet(mapping.confidence_scores, field_name,
                                   DefaultConfidence)
         IN  IF field_name \in mapping.identified_fields
                /\ confidence > best_confidence
             THEN BestFrom(field_name, Tail(mappings), <<mapping.chunk_id>>,
                           confidence)
             ELSE BestFrom(field_name, Tail(mappings), best_chunk_id,
                           best_confidence)

get_best_chunk_for_field(field_name, mappings) ==
    BestFrom(field_name, mappings, <<>>, InitialBest)

MapperInit ==
    /\ mapper \in
         {[pc |-> "plan", mappings |-> ms, next_field |-> 1,
           extraction_plan |-> <<>>] : ms \in MappingLists}
    /\ ExtractorIdle
    /\ persist = Off
    /\ chunker = Off
    /\ validator = Off
    /\ merger = Off
    /\ comparator = Off
    /\ store = Off
    /\ loop = Off
    /\ analyzer = Off
    /\ tiers = Off

MapperFrame ==
    UNCHANGED
        <<extractor_vars, persist, chunker, validator, merger, comparator,
          store, loop, analyzer, tiers>>

\* dict[key] = value
DictSet(d, key, value) ==
    [k \in DOMAIN d \cup {key} |-> IF k = key THEN value ELSE d[k]]

\* create_extraction_plan, lines 274-277: one pass of the loop over
\* TARGET_FIELDS
PlanField ==
    /\ mapper.pc = "plan"
    /\ LET field == TARGET_FIELDS[mapper.next_field]
           chunk_id == get_best_chunk_for_field(field, mapper.mappings)
       IN  mapper' =
             [mapper EXCEPT
                !.extraction_plan =
                    IF chunk_id # <<>> THEN DictSet(@, field, chunk_id[1])
                    ELSE @,
                !.next_field = @ + 1,
                !.pc = IF mapper.next_field = Len(TARGET_FIELDS)
                       THEN "returned" ELSE "plan"]
    /\ MapperFrame

MapperNext == PlanField

MapperSpec == MapperInit /\ [][MapperNext]_vars

\* the mappings that list field f, by position in the list
Listing(f) ==
    {i \in DOMAIN mapper.mappings : f \in mapper.mappings[i].identified_fields}

ConfidenceOf(i, f) ==
    DictGet(mapper.mappings[i].confidence_scores, f, DefaultConfidence)

\* C14: the plan create_extraction_plan returns contains a target field f
\* exactly when some mapping lists f, and plan[f] is then the chunk_id of the
\* mapping with the highest confidence for f among those listing it, the
\* earlier one winning a tie.
C14_PlanIsBestChunk ==
    mapper.pc = "returned" =>
        \A f \in Range(TARGET_FIELDS) :
           /\ f \in DOMAIN mapper.extraction_plan <=> Listing(f) # {}
           /\ f \in DOMAIN mapper.extraction_plan =>
                 \E i \in Listing(f) :
                    /\ mapper.extraction_plan[f] = mapper.mappings[i].chunk_id
                    /\ \A j \in Listing(f) :
                          \/ ConfidenceOf(j, f) < ConfidenceOf(i, f)
                          \/ (ConfidenceOf(j, f) = ConfidenceOf(i, f) /\ i <= j)

(* ------- smart_validator.py, and the loop's use of the validator ------ *)
\* a string is a sequence of pieces: an identifier token, a punctuation
\* mark, a blank
MaxValueLen == 3

MaxDocumentLen == 2

IdentifierTokens == {"NCT00000001", "NCT00000009"}

Punctuation == {";", "-"}

Blank == " "

Pieces == IdentifierTokens \cup {"nct00000001"} \cup Punctuation \cup {Blank}

Strings(n) == UNION {[1..k -> Pieces] : k \in 0..n}

\* the spellings of "nothing found" validate_extraction lets through
NotFoundSpellings == {<<"NOT_FOUND">>, <<"NONE">>, <<"N/A">>}

\* field_categories.py (an excerpt)
VERBATIM_FIELDS == {"nct_number", "sponsor"}

REGISTRY_ONLY_FIELDS == {"study_url"}

\* str.lower() and str.upper(), piece by piece
LowerPiece(p) ==
    IF p = "NCT00000001" THEN "nct00000001"
    ELSE IF p = "NCT00000009" THEN "nct00000009"
    ELSE IF p = "N/A" THEN "n/a"
    ELSE IF p \in {"Phase", "PHASE"} THEN "phase"
    ELSE IF p = "A" THEN "a"
    ELSE IF p = "SAP" THEN "sap"
    ELSE p

UpperPiece(p) ==
    IF p = "nct00000001" THEN "NCT00000001"
    ELSE IF p = "nct00000009" THEN "NCT00000009"
    ELSE IF p = "n/a" THEN "N/A"
    ELSE IF p = "a" THEN "A"
    ELSE IF p = "sap" THEN "SAP"
    ELSE p

lower(s) == [i \in DOMAIN s |-> LowerPiece(s[i])]

upper(s) == [i \in DOMAIN s |-> UpperPiece(s[i])]

\* sub in s
Contains(s, sub) ==
    \E i \in 1..(Len(s) - Len(sub) + 1) : SubSeq(s, i, i + Len(sub) - 1) = sub

\* str.strip()
RECURSIVE lstrip(_)
lstrip(s) == IF s # <<>> /\ Head(s) = Blank THEN lstrip(Tail(s)) ELSE s

RECURSIVE rstrip(_)
rstrip(s) ==
    IF s # <<>> /\ s[Len(s)] = Blank THEN rstrip(SubSeq(s, 1, Len(s) - 1)) ELSE s

strip(s) == rstrip(lstrip(s))

\* value.split(";"): the parts between the semicolons, in order
RECURSIVE split(_, _)
split(s, part) ==
    IF s = <<>> THEN <<part>>
    ELSE IF Head(s) = ";" THEN <<part>> \o split(Tail(s), <<>>)
    ELSE split(Tail(s), Append(part, Head(s)))

\* re.sub(r'[^\w\s]', ' ', s)
Clean(s) == [i \in DOMAIN s |-> IF s[i] \in Punctuation THEN Blank ELSE s[i]]

\* p in document or p.lower() in document.lower()
Found(p, document) == Contains(document, p) \/ Contains(lower(document), lower(p))

\* SmartValidator._validate_verbatim: is_valid
_validate_verbatim(value, document) ==
    IF ";" \in Range(value)
    THEN LET parts == split(value, <<>>)
             found == {i \in DOMAIN parts :
                          strip(parts[i]) # <<>> /\ Found(strip(parts[i]), document)}
         IN  found # {}
    ELSE \/ Found(value, document)
         \/ Contains(lower(Clean(document)), lower(strip(Clean(value))))

\* SmartValidator.validate_extraction: is_valid, for the fields modelled
SmartValidator_validate_extraction(field_name, extracted_value, document_text) ==
    IF extracted_value = <<>> \/ upper(extracted_value) \in NotFoundSpellings
    THEN TRUE
    ELSE IF field_name \in REGISTRY_ONLY_FIELDS THEN TRUE
    ELSE IF field_name \in VERBATIM_FIELDS
    THEN _validate_verbatim(extracted_value, document_text)
    ELSE TRUE

\* parse_extraction_response, lines 408-411: the spellings turned into None
ParsedAsNone(value) ==
    value = <<>> \/ upper(value) \in NotFoundSpellings \cup {<<"NOT FOUND">>}

ValidatorInit ==
    /\ validator \in
         {[pc |-> "call", field_name |-> f, value |-> v, document |-> d,
           is_valid |-> FALSE, status |-> IN_PROGRESS, stored |-> <<>>] :
             f \in VERBATIM_FIELDS,
             v \in Strings(MaxValueLen) \cup {<<"N/A">>, <<"n/a">>},
             d \in Strings(MaxDocumentLen)}
    /\ ExtractorIdle
    /\ persist = Off
    /\ chunker = Off
    /\ mapper = Off
    /\ merger = Off
    /\ comparator = Off
    /\ store = Off
    /\ loop = Off
    /\ analyzer = Off
    /\ tiers = Off

ValidatorFrame ==
    UNCHANGED
        <<extractor_vars, persist, chunker, mapper, merger, comparator,
          store, loop, analyzer, tiers>>

\* _extract_batch_fields, lines 415-419: the value the oracle gave for the
\* field is validated against the text
Validate ==
    /\ validator.pc = "call"
    /\ validator' =
         [validator EXCEPT
            !.pc = "validated",
            !.is_valid = SmartValidator_validate_extraction(
                             validator.field_name, validator.value,
                             validator.document)]
    /\ ValidatorFrame

\* _extract_batch_fields, lines 421-426, and extract_from_pdf, lines 232-237: a
\* rejected value becomes None, and the field is stored COMPLETED with a value
\* and FAILED without one
StoreValidated ==
    /\ validator.pc = "validated"
    /\ LET value == IF ParsedAsNone(validator.value) \/ ~validator.is_valid
                    THEN <<>> ELSE <<validator.value>>
       IN  validator' =
             [validator EXCEPT
                !.pc = "stored",
                !.stored = value,
                !.status = IF value # <<>> THEN COMPLETED ELSE FAILED]
    /\ ValidatorFrame

ValidatorNext ==
    \/ Validate
    \/ StoreValidated

ValidatorSpec == ValidatorInit /\ [][ValidatorNext]_vars

\* C15: for a verbatim-tier field, a value that does not occur in the source
\* text as a case-insensitive substring is rejected by validate_extraction.
C15_AbsentValueRejected ==
    (validator.pc # "call"
        /\ validator.field_name \in VERBATIM_FIELDS
        /\ ~Contains(lower(validator.document), lower(validator.value))) =>
       ~validator.is_valid

\* re.findall(r"NCT\d{8}", document_text)
all_ncts(document_text) == Range(document_text) \cap IdentifierTokens

\* C16: the identifier field is never stored COMPLETED by the loop with an
\* identifier the oracle claimed that is not one of the NCT-and-eight-digits
\* tokens of the document: every such token of the stored value is a token
\* of the document, the case of the letters apart.
C16_IdentifierFromDocument ==
    (validator.pc = "stored"
        /\ validator.field_name = "nct_number"
        /\ validator.status = COMPLETED) =>
       all_ncts(upper(validator.stored[1]))
          \subseteq all_ncts(upper(validator.document))

(* ---------- unified_extractor_enhanced.py: merge_extractions ---------- *)
\* get_trial_documents: the document types of a trial
DocTypes == {"Protocol", "SAP", "ICF"}

\* determine_doc_type: the label of an uploaded file named after none of them
OtherLabels == {"Unknown"}

\* the fields merged (an excerpt with two different priority orders)
MergeFields == {"sponsor", "primary_outcome_measures"}

\* merge_extractions, lines 95-113
field_priorities(field_name) ==
    IF field_name = "sponsor" THEN <<"Protocol", "SAP", "ICF">>
    ELSE IF field_name = "primary_outcome_measures"
    THEN <<"SAP", "Protocol", "ICF">>
    ELSE <<"Protocol", "SAP", "ICF">>

\* the value a document gives, and the path of the document
DocValue(doc_type) ==
    IF doc_type = "Protocol" THEN "Acme Corp"
    ELSE IF doc_type = "SAP" THEN "Acme Inc"
    ELSE IF doc_type = "ICF" THEN "Acme"
    ELSE "Acme Ltd"

PdfOf(doc_type) ==
    IF doc_type = "Protocol" THEN "NCT00000001_Prot_000.pdf"
    ELSE IF doc_type = "SAP" THEN "NCT00000001_SAP_000.pdf"
    ELSE IF doc_type = "ICF" THEN "NCT00000001_ICF_000.pdf"
    ELSE "NCT00000001_upload.pdf"

\* what a checkpoint file can hold for a field: COMPLETED with a value or
\* with the empty string, or FAILED with the value an earlier COMPLETED left
FieldKinds == {"value", "empty", "failed with value"}

\* one field of a checkpoint file as json.load returns it
FieldData(doc_type, kind) ==
    [status |-> IF kind \in {"value", "empty"} THEN COMPLETED ELSE FAILED,
     value |-> IF kind \in {"value", "failed with value"} THEN DocValue(doc_type)
               ELSE IF kind = "empty" THEN "" ELSE None,
     extraction_time |-> "2024-01-01T10:00:00",
     confidence |-> None]

\* the fields a checkpoint file has, and what it holds for each
Shapes == UNION {[present -> FieldKinds] : present \in SUBSET MergeFields}

CheckpointFile(doc_type, shape) ==
    [pdf_path |-> PdfOf(doc_type),
     fields |-> [f \in DOMAIN shape |-> FieldData(doc_type, shape[f])]]

\* the checkpoints of the documents named after a document type
TrialExtractions ==
    UNION {{[d \in docs |-> CheckpointFile(d, shape[d])] :
               shape \in [docs -> Shapes]} : docs \in SUBSET DocTypes}

\* what the checkpoint of a document with another label holds: every field
\* with a value, one field with a value, or one field FAILED
OtherShapes ==
    {[f \in MergeFields |-> "value"],
     [f \in {"sponsor"} |-> "value"],
     [f \in {"sponsor"} |-> "failed with value"]}

\* all_extractions: the checkpoints by document label
AllExtractions ==
    TrialExtractions \cup
    {x @@ (d :> CheckpointFile(d, shape)) :
        x \in TrialExtractions, d \in OtherLabels, shape \in OtherShapes}

\* merge_extractions, lines 115-118
all_fields(all_extractions) ==
    UNION {DOMAIN all_extractions[d].fields : d \in DOMAIN all_extractions}

\* Python's truth of a JSON value: neither null nor the empty string
Truthy(value) == value \notin {None, ""}

\* faulty variant of Usable: the status is not looked at
Usable_AnyStatus(field_data) == Truthy(field_data.value)

\* merge_extractions, line 132
Usable(field_data) == field_data.status = "completed" /\ Truthy(field_data.value)

\* merge_extractions, lines 126-142: the loop over the priority order, from
\* position i on; <<>> when no document gives a value
RECURSIVE FirstUsable(_, _, _, _)
FirstUsable(all_extractions, field_name, priority, i) ==
    IF i > Len(priority) THEN <<>>
    ELSE LET doc_type == priority[i]
         IN  IF /\ doc_type \in DOMAIN all_extractions
                /\ field_name \in DOMAIN all_extractions[doc_type].fields
                /\ Usable(all_extractions[doc_type].fields[field_name])
             THEN <<doc_type>>
             ELSE FirstUsable(all_extractions, field_name, priority, i + 1)

\* merge_extractions, lines 134-140
FoundEntry(all_extractions, field_name, doc_type) ==
    LET field_data == all_extractions[doc_type].fields[field_name]
    IN  [value |-> field_data.value,
         source_document |-> doc_type,
         source_pdf |-> all_extractions[doc_type].pdf_path,
         extraction_time |-> field_data.extraction_time,
         confidence |-> field_data.confidence]

\* faulty variant of NotFoundEntry: the attempted documents are not listed
NotFoundEntry_NoAttempts(all_extractions, priority) ==
    [value |-> None, source_document |-> "NOT_FOUND",
     attempted_documents |-> <<>>]

\* merge_extractions, lines 145-150
NotFoundEntry(all_extractions, priority) ==
    [value |-> None, source_document |-> "NOT_FOUND",
     attempted_documents |->
         SelectSeq(priority, LAMBDA d : d \in DOMAIN all_extractions)]

\* merge_extractions, lines 121-150: the unified entry of one field
UnifiedEntry(all_extractions, field_name) ==
    LET priority == field_priorities(field_name)
        first == FirstUsable(all_extractions, field_name, priority, 1)
    IN  IF first # <<>>
        THEN FoundEntry(all_extractions, field_name, first[1])
        ELSE NotFoundEntry(all_extractions, priority)

\* merge_extractions, lines 152-167 (extraction_rate is kept as the two
\* numbers it is formatted from)
Statistics(all_extractions, fields) ==
    LET total_fields == Cardinality(DOMAIN fields)
        extracted_fields ==
            Cardinality({f \in DOMAIN fields : Truthy(fields[f].value)})
    IN  [total_fields |-> total_fields,
         extracted_fields |-> extracted_fields,
         extraction_rate |-> <<extracted_fields, total_fields>>,
         by_document |->
            [d \in DOMAIN all_extractions |->
               Cardinality({f \in DOMAIN fields :
                               fields[f].source_document = d})]]

MergerInit ==
    /\ merger \in
         {[pc |-> "fields", all_extractions |-> x,
           unified |-> [nct_number |-> "NCT00000001",
                        source_documents |-> DOMAIN x,
                        fields |-> <<>>,
                        statistics |-> <<>>]] : x \in AllExtractions}
    /\ ExtractorIdle
    /\ persist = Off
    /\ chunker = Off
    /\ mapper = Off
    /\ validator = Off
    /\ comparator = Off
    /\ store = Off
    /\ loop = Off
    /\ analyzer = Off
    /\ tiers = Off

MergerFrame ==
    UNCHANGED
        <<extractor_vars, persist, chunker, mapper, validator, comparator,
          store, loop, analyzer, tiers>>

\* merge_extractions, lines 121-150: one pass of the loop over all_fields, a
\* set, so in any order
MergeField ==
    /\ merger.pc = "fields"
    /\ \E field_name \in all_fields(merger.all_extractions)
                            \ DOMAIN merger.unified.fields :
          merger' =
             [merger EXCEPT
                !.unified.fields =
                    DictSet(@, field_name,
                            UnifiedEntry(merger.all_extractions, field_name))]
    /\ MergerFrame

\* merge_extractions, lines 152-169: the statistics, and the return
MergeStatistics ==
    /\ merger.pc = "fields"
    /\ all_fields(merger.all_extractions) = DOMAIN merger.unified.fields
    /\ merger' =
         [merger EXCEPT
            !.pc = "returned",
            !.unified.statistics =
                Statistics(merger.all_extractions, merger.unified.fields)]
    /\ MergerFrame

MergerNext ==
    \/ MergeField
    \/ MergeStatistics

MergerSpec == MergerInit /\ [][MergerNext]_vars

\* the positions of the priority order of field f whose document holds f
\* COMPLETED with a non-empty value
Winners(f) ==
    LET x == merger.all_extractions
        priority == field_priorities(f)
    IN  {i \in DOMAIN priority :
            /\ priority[i] \in DOMAIN x
            /\ f \in DOMAIN x[priority[i]].fields
            /\ x[priority[i]].fields[f].status = COMPLETED
            /\ x[priority[i]].fields[f].value \notin {None, ""}}

\* C17: for every field, the unified record holds the value of the first
\* document type of the field's priority order that has the field COMPLETED
\* with a non-empty value, with that document's type and path.
C17_FirstInPriorityWins ==
    merger.pc = "returned" =>
        \A f \in all_fields(merger.all_extractions) :
           Winners(f) # {} =>
              LET first == field_priorities(f)[
                              CHOOSE i \in Winners(f) :
                                 \A j \in Winners(f) : i <= j]
                  entry == merger.unified.fields[f]
              IN  /\ entry.value = merger.all_extractions[first].fields[f].value
                  /\ entry.source_document = first
                  /\ entry.source_pdf = merger.all_extractions[first].pdf_path

\* C17 witness: Protocol has sponsor COMPLETED as Acme Corp and SAP has it
\* FAILED, and the unified sponsor is Acme Corp from Protocol; the outcome
\* measures, FAILED in SAP, come from a later document of their order.
C17_Witness ==
    /\ merger.pc = "returned"
    /\ {"Protocol", "SAP"} \subseteq DOMAIN merger.all_extractions
    /\ MergeFields \subseteq DOMAIN merger.all_extractions["SAP"].fields
    /\ merger.all_extractions["SAP"].fields["sponsor"].status = FAILED
    /\ merger.all_extractions["SAP"].fields["primary_outcome_measures"].status
          = FAILED
    /\ merger.unified.fields["sponsor"].value = "Acme Corp"
    /\ merger.unified.fields["sponsor"].source_document = "Protocol"
    /\ merger.unified.fields["primary_outcome_measures"].source_document
          = "Protocol"

\* C18: every field name of an input checkpoint is in the unified record; a
\* field no document holds COMPLETED with a value has value null and the
\* documents attempted; extracted_fields is the number of unified fields
\* with a non-null value.
C18_NoFieldDropped ==
    merger.pc = "returned" =>
        LET x == merger.all_extractions
            unified == merger.unified
        IN  /\ \A d \in DOMAIN x : DOMAIN x[d].fields \subseteq DOMAIN unified.fields
            /\ \A f \in DOMAIN unified.fields :
                  Winners(f) = {} =>
                     /\ unified.fields[f].value = None
                     /\ Range(unified.fields[f].attempted_documents) =
                           DOMAIN x \cap Range(field_priorities(f))
            /\ unified.statistics.extracted_fields =
                  Cardinality({f \in DOMAIN unified.fields :
                                  unified.fields[f].value # None})

\* C18 witness: a field that one document lacks and the others hold FAILED
\* or empty is in the unified record with value null and three documents
\* attempted, next to a field with a value.
C18_Witness ==
    /\ merger.pc = "returned"
    /\ DOMAIN merger.all_extractions = DocTypes
    /\ "sponsor" \notin DOMAIN merger.all_extractions["ICF"].fields
    /\ "sponsor" \in DOMAIN merger.all_extractions["SAP"].fields
    /\ merger.all_extractions["SAP"].fields["sponsor"].status = COMPLETED
    /\ merger.unified.fields["sponsor"].value = None
    /\ Len(merger.unified.fields["sponsor"].attempted_documents)
          = Cardinality(DocTypes)
    /\ merger.unified.statistics.extracted_fields > 0

\* C29: a field that some input document, whatever its label, holds
\* COMPLETED with a non-empty value has a non-null value in the unified
\* record, and a field recorded as not found lists every input document
\* among its attempted documents.
C29_NoDocumentIgnored ==
    merger.pc = "returned" =>
        LET x == merger.all_extractions
            unified == merger.unified
        IN  /\ \A d \in DOMAIN x :
                  \A f \in DOMAIN x[d].fields :
                     (/\ x[d].fields[f].status = COMPLETED
                      /\ x[d].fields[f].value \notin {None, ""}) =>
                        unified.fields[f].value # None
            /\ \A f \in DOMAIN unified.fields :
                  unified.fields[f].value = None =>
                     DOMAIN x \subseteq
                        Range(unified.fields[f].attempted_documents)

(* ---------- intelligent_comparator.py: compare_fields ----------------- *)
MaxCompareLen == 3

\* the pieces of the values compared: a word in two spellings, a number,
\* a blank
ComparePieces == {"Phase", "PHASE", "2", Blank}

CompareValues == UNION {[1..k -> ComparePieces] : k \in 0..MaxCompareLen}

\* JSON values: a boolean (v is 0 or 1), a number (v in hundredths), a
\* non-empty string
JBool(b) == [type |-> "boolean", v |-> IF b THEN 1 ELSE 0]

JNumber(hundredths) == [type |-> "number", v |-> hundredths]

JString == [type |-> "string", v |-> 0]

\* what the oracle may put under "match" and under "confidence"
MatchValues == {JBool(TRUE), JBool(FALSE), JString}

ConfidenceValues == {JNumber(95), JNumber(150), JString}

\* the outcomes of the oracle call: it raises, it answers a text that is no
\* JSON, a JSON text that is no object, or an object with some of the keys
OracleResponses ==
    {[kind |-> k, keys |-> {}, match |-> JBool(FALSE),
      confidence |-> JNumber(0)] : k \in {"raise", "not json", "json list"}}
    \cup
    {[kind |-> "json object", keys |-> ks, match |-> m, confidence |-> c] :
        ks \in {{"match", "confidence", "explanation"},
                {"match", "confidence"}, {"explanation"}},
        m \in MatchValues, c \in ConfidenceValues}

CompareResult(match, confidence, explanation) ==
    [match |-> match, confidence |-> confidence, explanation |-> explanation]

\* compare_fields, lines 54-79: what is returned for an outcome of the call
ParsedResult(response) ==
    IF response.kind = "raise"
    THEN CompareResult(JBool(FALSE), JNumber(0), "Comparison error")
    ELSE IF response.kind = "not json"
    THEN CompareResult(JBool(FALSE), JNumber(0),
                       "Failed to parse comparison result")
    ELSE IF response.kind = "json object"
            /\ {"match", "confidence", "explanation"} \subseteq response.keys
    THEN CompareResult(response.match, response.confidence, "oracle")
    ELSE CompareResult(JBool(FALSE), JNumber(0), "Comparison error")

ComparatorInit ==
    /\ comparator \in
         {[pc |-> "call", extracted_value |-> e, ctgov_value |-> c,
           oracle_calls |-> 0, response |-> <<>>, result |-> <<>>] :
             e \in CompareValues, c \in CompareValues}
    /\ ExtractorIdle
    /\ persist = Off
    /\ chunker = Off
    /\ mapper = Off
    /\ validator = Off
    /\ merger = Off
    /\ store = Off
    /\ loop = Off
    /\ analyzer = Off
    /\ tiers = Off

ComparatorFrame ==
    UNCHANGED
        <<extractor_vars, persist, chunker, mapper, validator, merger,
          store, loop, analyzer, tiers>>

\* compare_fields, lines 22-27: the two returns that need no oracle
CompareFields ==
    /\ comparator.pc = "call"
    /\ LET e == comparator.extracted_value
           c == comparator.ctgov_value
       IN  comparator' =
             IF e = <<>> \/ c = <<>>
             THEN [comparator EXCEPT
                     !.pc = "returned",
                     !.result = <<CompareResult(JBool(FALSE), JNumber(0),
                                     "One or both values are empty")>>]
             ELSE IF lower(strip(e)) = lower(strip(c))
             THEN [comparator EXCEPT
                     !.pc = "returned",
                     !.result = <<CompareResult(JBool(TRUE), JNumber(100),
                                                "Exact match")>>]
             ELSE [comparator EXCEPT !.pc = "oracle"]
    /\ ComparatorFrame

\* compare_fields, lines 54-79: the oracle call and the reading of its answer
OracleCompares ==
    /\ comparator.pc = "oracle"
    /\ \E response \in OracleResponses :
          comparator' =
             [comparator EXCEPT
                !.pc = "returned",
                !.oracle_calls = @ + 1,
                !.response = <<response>>,
                !.result = <<ParsedResult(response)>>]
    /\ ComparatorFrame

ComparatorNext ==
    \/ CompareFields
    \/ OracleCompares

ComparatorSpec == ComparatorInit /\ [][ComparatorNext]_vars

\* a value with its blanks taken out and its letters in lower case
Squeezed(s) == lower(SelectSeq(s, LAMBDA p : p # Blank))

\* C19: compare_fields returns (true, 1.0, exact match) without an oracle call
\* whenever the two values are equal ignoring case and whitespace, and a
\* non-match with confidence 0.0, again without an oracle call, when either
\* value is empty.
C19_ExactMatchShortCircuit ==
    comparator.pc = "returned" =>
        LET e == comparator.extracted_value
            c == comparator.ctgov_value
            result == comparator.result[1]
        IN  /\ (e = <<>> \/ c = <<>>) =>
                  /\ result.match = JBool(FALSE)
                  /\ result.confidence = JNumber(0)
                  /\ comparator.oracle_calls = 0
            /\ (e # <<>> /\ c # <<>> /\ Squeezed(e) = Squeezed(c)) =>
                  /\ result = CompareResult(JBool(TRUE), JNumber(100),
                                            "Exact match")
                  /\ comparator.oracle_calls = 0

\* the oracle's answer did not parse into the expected structure
Unparsed(response) ==
    \/ response.kind # "json object"
    \/ ~({"match", "confidence", "explanation"} \subseteq response.keys)

\* C20: when the oracle raises or its answer does not parse into an object
\* with match, confidence and explanation, compare_fields returns match false
\* with confidence 0.0; and whatever the answer, the match returned is a
\* boolean and the confidence lies in [0, 1].
C20_MalformedNeverMatches ==
    (comparator.pc = "returned" /\ comparator.response # <<>>) =>
        LET result == comparator.result[1]
        IN  /\ Unparsed(comparator.response[1]) =>
                  /\ result.match = JBool(FALSE)
                  /\ result.confidence = JNumber(0)
            /\ result.match.type = "boolean"
            /\ result.confidence.type = "number"
            /\ result.confidence.v \in 0..100

(* -------- checkpoint_manager.py: the checkpoint directory, and -------- *)
(* -------- two extraction runs on two different keys ------------------- *)
\* nct_number and pdf_type are strings: sequences of pieces
CaseIds == {<<"NCT1">>, <<"NCT2">>, <<"NCT1", "_", "a">>, <<"NCT1", "_", "A">>}

PdfTypes == {<<"SAP">>, <<"sap">>, <<"a", "_", "SAP">>}

Keys == [nct_number : CaseIds, pdf_type : PdfTypes]

Suffix == "_checkpoint.json"

\* get_checkpoint_path: f"{nct_number}_{pdf_type.lower()}_checkpoint.json"
get_checkpoint_path(nct_number, pdf_type) ==
    nct_number \o <<"_">> \o lower(pdf_type) \o <<Suffix>>

\* an ExtractionCheckpoint with the key it was created for
Keyed(key, c) == [nct_number |-> key.nct_number, pdf_type |-> key.pdf_type] @@ c

\* save_checkpoint: the file named after the checkpoint's own key is written
save_checkpoint_in(files, c) ==
    DictSet(files, get_checkpoint_path(c.nct_number, c.pdf_type), c)

\* load_checkpoint(nct_number, pdf_type): None when the file does not exist
load_checkpoint_from(files, nct_number, pdf_type) ==
    LET checkpoint_path == get_checkpoint_path(nct_number, pdf_type)
    IN  IF checkpoint_path \in DOMAIN files THEN <<files[checkpoint_path]>>
        ELSE <<>>

\* str.split('_'): the parts between the underscores, in order
RECURSIVE split_(_, _)
split_(s, part) ==
    IF s = <<>> THEN <<part>>
    ELSE IF Head(s) = "_" THEN <<part>> \o split_(Tail(s), <<>>)
    ELSE split_(Tail(s), Append(part, Head(s)))

\* '_'.join(parts)
RECURSIVE join_(_)
join_(parts) ==
    IF parts = <<>> THEN <<>>
    ELSE IF Len(parts) = 1 THEN parts[1]
    ELSE parts[1] \o <<"_">> \o join_(Tail(parts))

\* list_checkpoints, lines 148-153: the key read back from a file name
KeyOfFilename(filename) ==
    LET parts == split_(SelectSeq(filename, LAMBDA p : p # Suffix), <<>>)
    IN  IF filename # <<>> /\ filename[Len(filename)] = Suffix /\ Len(parts) >= 2
        THEN <<[nct_number |-> parts[1], pdf_type |-> upper(join_(Tail(parts)))]>>
        ELSE <<>>

\* list_checkpoints, lines 154-163: the entry made for a file name whose key
\* loads a checkpoint
ListEntry(files, filename) ==
    LET key == KeyOfFilename(filename)[1]
    IN  [nct_number |-> key.nct_number,
         pdf_type |-> key.pdf_type,
         checkpoint |->
             load_checkpoint_from(files, key.nct_number, key.pdf_type)[1]]

\* list_checkpoints: the file names that get an entry
Listed(files) ==
    {filename \in DOMAIN files :
        /\ KeyOfFilename(filename) # <<>>
        /\ load_checkpoint_from(files, KeyOfFilename(filename)[1].nct_number,
                                KeyOfFilename(filename)[1].pdf_type) # <<>>}

list_checkpoints(files) == {ListEntry(files, filename) : filename \in Listed(files)}

Runs == {1, 2}

\* a run that has not been started
NoRun == [pc |-> "idle", cp |-> <<>>, field_groups |-> <<>>, idx |-> 1,
          results |-> <<>>]

EmptyDir == [filename \in {} |-> <<>>]

StoreInit ==
    /\ ExtractorIdle
    /\ persist = Off
    /\ chunker = Off
    /\ mapper = Off
    /\ validator = Off
    /\ merger = Off
    /\ comparator = Off
    /\ loop = Off
    /\ analyzer = Off
    /\ tiers = Off
    /\ \E k1 \in Keys, k2 \in Keys, t2 \in Texts :
          /\ k1 # k2
          /\ store = [pc |-> "runs",
                      key |-> <<k1, k2>>,
                      text |-> <<"docA", t2>>,
                      files |-> EmptyDir,
                      run |-> [i \in Runs |-> NoRun],
                      listing |-> {}]

StoreFrame ==
    UNCHANGED
        <<extractor_vars, persist, chunker, mapper, validator, merger,
          comparator, loop, analyzer, tiers>>

\* extract_from_pdf of run i, lines 87-169
StoreBegin(i) ==
    /\ store.pc = "runs"
    /\ store.run[i].pc = "idle"
    /\ \E resume \in BOOLEAN :
         LET key == store.key[i]
             checkpoint == IF resume
                           THEN load_checkpoint_from(store.files,
                                                     key.nct_number,
                                                     key.pdf_type)
                           ELSE <<>>
             kept == KeepLoaded(checkpoint, store.text[i])
             c == IF kept = <<>>
                  THEN Keyed(key, NewCheckpoint("protocol.pdf", store.text[i]))
                  ELSE kept[1]
             groups == get_optimal_field_groups(_get_pending_fields(c))
         IN  store' = [store EXCEPT
                         !.files = IF kept = <<>> THEN save_checkpoint_in(@, c)
                                   ELSE @,
                         !.run[i] = [pc |-> IF groups = <<>> THEN "done"
                                            ELSE "mark",
                                     cp |-> <<c>>,
                                     field_groups |-> groups,
                                     idx |-> 1,
                                     results |-> <<>>]]
    /\ StoreFrame

\* extract_from_pdf of run i, lines 177-180
StoreMark(i) ==
    /\ store.pc = "runs"
    /\ store.run[i].pc = "mark"
    /\ LET r == store.run[i]
           field_group == Head(r.field_groups)
           c == update_field_status(r.cp[1], field_group[r.idx], IN_PROGRESS,
                                    None, None)
       IN  store' = [store EXCEPT
                       !.files = save_checkpoint_in(@, c),
                       !.run[i].cp = <<c>>,
                       !.run[i].idx = IF r.idx = Len(field_group) THEN 1
                                      ELSE r.idx + 1,
                       !.run[i].pc = IF r.idx = Len(field_group) THEN "extract"
                                     ELSE "mark"]
    /\ StoreFrame

\* extract_from_pdf of run i, lines 183-230: the oracle reads the run's own
\* text and finds every field of the group
StoreExtract(i) ==
    /\ store.pc = "runs"
    /\ store.run[i].pc = "extract"
    /\ LET field_group == Head(store.run[i].field_groups)
       IN  store' = [store EXCEPT
                       !.run[i].results =
                           [j \in 1..Len(field_group) |->
                              <<field_group[j], OracleValue(store.text[i])>>],
                       !.run[i].pc = "store"]
    /\ StoreFrame

\* extract_from_pdf of run i, lines 205-209 and 232-237
StoreUpdate(i) ==
    /\ store.pc = "runs"
    /\ store.run[i].pc = "store"
    /\ LET r == store.run[i]
           field_name == Head(r.results)[1]
           value == Head(r.results)[2]
           c == update_field_status(r.cp[1], field_name, ResultStatus(value),
                                    value, None)
           last_of_group == Tail(r.results) = <<>>
           last_group == Tail(r.field_groups) = <<>>
       IN  store' = [store EXCEPT
                       !.files = save_checkpoint_in(@, c),
                       !.run[i].cp = <<c>>,
                       !.run[i].results = Tail(@),
                       !.run[i].field_groups = IF last_of_group THEN Tail(@)
                                               ELSE @,
                       !.run[i].pc = IF ~last_of_group THEN "store"
                                     ELSE IF last_group THEN "done"
                                     ELSE "mark"]
    /\ StoreFrame

\* list_checkpoints(), called when both runs have returned
ListCheckpoints ==
    /\ store.pc = "runs"
    /\ \A i \in Runs : store.run[i].pc = "done"
    /\ store' = [store EXCEPT !.pc = "listed",
                              !.listing = list_checkpoints(store.files)]
    /\ StoreFrame

StoreNext ==
    \/ \E i \in Runs : StoreBegin(i)
    \/ \E i \in Runs : StoreMark(i)
    \/ \E i \in Runs : StoreExtract(i)
    \/ \E i \in Runs : StoreUpdate(i)
    \/ ListCheckpoints

StoreSpec == StoreInit /\ [][StoreNext]_vars

\* the two runs have returned
BothReturned == store.pc # "off" /\ \A i \in Runs : store.run[i].pc = "done"

\* the checkpoint run i produces when it is the only run: created for its
\* key and its text, every field found by the oracle
Alone(i) ==
    LET c == Keyed(store.key[i], NewCheckpoint("protocol.pdf", store.text[i]))
    IN  [c EXCEPT
           !.completed_fields = c.total_fields,
           !.fields = [f \in CTGOV_FIELD_MAPPING |->
                         [PendingField EXCEPT
                            !.status = COMPLETED,
                            !.value = OracleValue(store.text[i])]]]

\* C21: two runs on different (nct_number, pdf_type) keys, interleaved in
\* any order, work on different checkpoint files, and when both have returned
\* the persisted checkpoint of each key is the one its run produces alone.
C21_RunsIsolated ==
    BothReturned =>
        \A i \in Runs :
           load_checkpoint_from(store.files, store.key[i].nct_number,
                                store.key[i].pdf_type) = <<Alone(i)>>

\* C30: the two different keys of the runs have different checkpoint files,
\* and list_checkpoints gives for every file a key under which
\* load_checkpoint returns the checkpoint of that file.
C30_PathInjective ==
    store.pc = "listed" =>
        /\ get_checkpoint_path(store.key[1].nct_number, store.key[1].pdf_type)
              # get_checkpoint_path(store.key[2].nct_number,
                                    store.key[2].pdf_type)
        /\ \A filename \in DOMAIN store.files :
              \E entry \in store.listing :
                 /\ entry.checkpoint = store.files[filename]
                 /\ load_checkpoint_from(store.files, entry.nct_number,
                                         entry.pdf_type)
                       = <<store.files[filename]>>

(* ------ field_categories.py and SmartValidator.validate_extraction: ---- *)
(* ------ the validation tier of every target field ---------------------- *)
\* the keys of CTGOV_FIELD_MAPPING, all of them
TargetFields ==
    {"nct_number", "study_title", "study_url", "acronym", "study_status",
     "brief_summary", "study_results", "conditions", "interventions",
     "primary_outcome_measures", "secondary_outcome_measures",
     "other_outcome_measures", "sponsor", "collaborators", "sex", "age",
     "phases", "enrollment", "funder_type", "study_type", "study_design",
     "other_ids", "start_date", "primary_completion_date", "completion_date",
     "first_posted", "results_first_posted", "last_update_posted",
     "locations", "study_documents"}

\* field_categories.py: the four sets, all of them
FieldCategories ==
    [VERBATIM_FIELDS |->
         {"nct_number", "sponsor", "collaborators", "start_date",
          "completion_date", "enrollment", "phases", "locations"},
     SUMMARY_FIELDS |->
         {"brief_summary", "study_design", "study_results", "interventions",
          "primary_outcome_measures", "secondary_outcome_measures"},
     INFERRED_FIELDS |->
         {"study_status", "study_type", "sex", "age", "funder_type"},
     REGISTRY_ONLY_FIELDS |->
         {"study_url", "first_posted", "results_first_posted",
          "last_update_posted", "study_documents"}]

\* what the oracle gave for the field: nothing, a spelling of "not found",
\* or a value
ExtractedKinds == {"empty", "NOT_FOUND", "value"}

\* validate_extraction, lines 29-51: the rule that decides about the value
ValidationRule(field_name, extracted_kind) ==
    IF extracted_kind \in {"empty", "NOT_FOUND"} THEN "accepted unseen"
    ELSE IF field_name \in FieldCategories.REGISTRY_ONLY_FIELDS
        THEN "REGISTRY_ONLY_FIELDS"
    ELSE IF field_name \in FieldCategories.VERBATIM_FIELDS
        THEN "VERBATIM_FIELDS"
    ELSE IF field_name \in FieldCategories.SUMMARY_FIELDS
        THEN "SUMMARY_FIELDS"
    ELSE IF field_name \in FieldCategories.INFERRED_FIELDS
        THEN "INFERRED_FIELDS"
    ELSE "_validate_smart"

TiersInit ==
    /\ ExtractorIdle
    /\ persist = Off
    /\ chunker = Off
    /\ mapper = Off
    /\ validator = Off
    /\ merger = Off
    /\ comparator = Off
    /\ store = Off
    /\ loop = Off
    /\ analyzer = Off
    /\ tiers \in [pc : {"call"}, field_name : TargetFields,
                  extracted_kind : ExtractedKinds, rule : {"none"}]

TiersFrame ==
    UNCHANGED
        <<extractor_vars, persist, chunker, mapper, validator, merger,
          comparator, store, loop, analyzer>>

\* validate_extraction(field_name, extracted_value, document_text)
ValidateExtraction ==
    /\ tiers.pc = "call"
    /\ tiers' = [tiers EXCEPT
                   !.pc = "returned",
                   !.rule = ValidationRule(tiers.field_name,
                                           tiers.extracted_kind)]
    /\ TiersFrame

TiersNext == ValidateExtraction

TiersSpec == TiersInit /\ [][TiersNext]_vars

\* the tiers a field belongs to
TiersOf(field_name) ==
    {t \in DOMAIN FieldCategories : field_name \in FieldCategories[t]}

\* C26: every target field belongs to exactly one of the four tiers, and a
\* value extracted for it is validated by the rule of that tier, never by
\* the rule for uncategorized fields.
C26_TiersPartition ==
    tiers.pc = "returned" =>
        /\ Cardinality(TiersOf(tiers.field_name)) = 1
        /\ tiers.extracted_kind = "value" =>
              tiers.rule \in TiersOf(tiers.field_name)

(* ---------------- chunk_mapper.py: analyze_chunks --------------------- *)
\* the chunk ids of the chunks passed to analyze_chunks, in list order
AnalyzedChunkLists == {<<>>, <<0>>, <<0, 1>>, <<0, 1, 2>>, <<2, 0>>}

\* the JSON objects the oracle answers with: each key may be missing
AnalysisObjects ==
    {[kind |-> "object", content |-> c] :
        c \in UNION {[keys -> {{}, {"enrollment"}, {"enrollment", "sponsor"}}] :
                        keys \in SUBSET {"fields", "sections"}}}

\* the outcomes of one oracle call: the call raises, the answer is no JSON,
\* the answer is JSON but no object, the answer is an object
AnalysisResponses ==
    {[kind |-> "raise", content |-> <<>>],
     [kind |-> "not json", content |-> <<>>],
     [kind |-> "array", content |-> <<>>]} \cup AnalysisObjects

\* analyze_chunk, lines 103-108 and 141-146
EmptyMapping(chunk_id) ==
    [chunk_id |-> chunk_id,
     identified_fields |-> {},
     confidence_scores |-> <<>>,
     relevant_sections |-> {}]

\* faulty variant of analyze_chunk: a failed analysis lists every target field
analyze_chunk_FailureListsAll(has_client, chunk_id, response) ==
    IF has_client /\ response.kind = "object"
    THEN [EmptyMapping(chunk_id) EXCEPT
            !.identified_fields = DictGet(response.content, "fields", {})]
    ELSE [EmptyMapping(chunk_id) EXCEPT
            !.identified_fields = Range(TARGET_FIELDS)]

\* analyze_chunk: without a client no call is made; a raising call,
\* json.loads raising and result.get raising on a non-object all end in the
\* except branch
analyze_chunk(has_client, chunk_id, response) ==
    IF ~has_client THEN EmptyMapping(chunk_id)
    ELSE IF response.kind = "object"
    THEN [chunk_id |-> chunk_id,
          identified_fields |-> DictGet(response.content, "fields", {}),
          confidence_scores |-> <<>>,
          relevant_sections |-> DictGet(response.content, "sections", {})]
    ELSE EmptyMapping(chunk_id)

AnalyzerInit ==
    /\ ExtractorIdle
    /\ persist = Off
    /\ chunker = Off
    /\ mapper = Off
    /\ validator = Off
    /\ merger = Off
    /\ comparator = Off
    /\ store = Off
    /\ loop = Off
    /\ tiers = Off
    /\ analyzer \in [pc : {"call"}, has_client : BOOLEAN,
                     chunks : AnalyzedChunkLists, i : {1},
                     responses : {<<>>}, mappings : {<<>>}]

AnalyzerFrame ==
    UNCHANGED
        <<extractor_vars, persist, chunker, mapper, validator, merger,
          comparator, store, loop, tiers>>

\* analyze_chunks, lines 158-160: the loop is entered, or there is no chunk
AnalyzeChunks ==
    /\ analyzer.pc = "call"
    /\ analyzer' = [analyzer EXCEPT
                      !.pc = IF analyzer.chunks = <<>> THEN "returned"
                             ELSE "loop"]
    /\ AnalyzerFrame

\* analyze_chunks, lines 160-163: one pass of the loop
AnalyzeChunk ==
    /\ analyzer.pc = "loop"
    /\ \E response \in AnalysisResponses :
          analyzer' =
             [analyzer EXCEPT
                !.mappings =
                    Append(@, analyze_chunk(analyzer.has_client,
                                            analyzer.chunks[analyzer.i],
                                            response)),
                !.responses = Append(@, response),
                !.i = @ + 1,
                !.pc = IF analyzer.i = Len(analyzer.chunks) THEN "returned"
                       ELSE "loop"]
    /\ AnalyzerFrame

AnalyzerNext == AnalyzeChunks \/ AnalyzeChunk

AnalyzerSpec == AnalyzerInit /\ [][AnalyzerNext]_vars

\* the oracle failed for the i-th chunk, or gave what json.loads rejects
AnalysisFailed(i) == analyzer.responses[i].kind \in {"raise", "not json"}

\* C25: analyze_chunks returns one mapping per chunk, in the order of the
\* chunks and with each chunk's chunk_id; the mapping of a chunk for which
\* the oracle failed or answered with unparseable text has no identified
\* field, and the chunks after it are analyzed all the same.
C25_OneMappingPerChunk ==
    analyzer.pc = "returned" =>
        /\ Len(analyzer.mappings) = Len(analyzer.chunks)
        /\ Len(analyzer.responses) = Len(analyzer.chunks)
        /\ \A i \in DOMAIN analyzer.chunks :
              /\ analyzer.mappings[i].chunk_id = analyzer.chunks[i]
              /\ AnalysisFailed(i) => analyzer.mappings[i].identified_fields = {}

\* C25 witness: three chunks were analyzed; the oracle raised for the first,
\* answered no JSON for the second, and the third mapping lists a field.
C25_Witness ==
    /\ analyzer.pc = "returned"
    /\ Len(analyzer.chunks) = 3
    /\ analyzer.responses[1].kind = "raise"
    /\ analyzer.responses[2].kind = "not json"
    /\ analyzer.mappings[3].chunk_id = 2
    /\ analyzer.mappings[3].identified_fields # {}

(* ------- extractor.py: one group of the extraction loop, query by ------ *)
(* ------- query: the extraction plan, the validator, the outcome -------- *)
(* ------- strategy and the chunked search of a large text --------------- *)
\* the chunks of the document, by chunk_id
ChunkIds == {0, 1}

ChunkText(chunk_id) == IF chunk_id = 0 THEN "chunk0" ELSE "chunk1"

\* ChunkedExtractor.get_chunks of a text of more than 60000 characters: it
\* has at least two parts, two are modelled
Parts == <<"part0", "part1">>

\* the value the oracle reads from a text
ValueIn(t) ==
    IF t = "chunk0" THEN "value-chunk0"
    ELSE IF t = "chunk1" THEN "value-chunk1"
    ELSE IF t = "part0" THEN "value-part0"
    ELSE IF t = "part1" THEN "value-part1"
    ELSE "value-pdf_text"

\* _extract_single_field_from_chunk, line 297
OutcomeFields == {"primary_outcome_measures", "secondary_outcome_measures"}

\* SmartOutcomeExtractor.extract_outcomes: a list of outcomes, or the empty
\* list, also when the call raises
OutcomeAnswers == {"outcomes", "no outcomes", "raise"}

\* the extraction plans over the fields of a group: each field has a chunk
\* or is not planned
Plans(field_group) ==
    UNION {[planned -> ChunkIds] : planned \in SUBSET Range(field_group)}

\* ChunkedExtractor.extract_with_chunks, lines 62-74, for a text of two parts
StartIdx(field_name) ==
    IF field_name \in OutcomeFields THEN 2
    ELSE IF field_name \in {"study_title", "sponsor", "nct_number"} THEN 1
    ELSE IF field_name \in {"locations", "enrollment", "start_date"} THEN 2
    ELSE 1

\* _extract_single_field_from_chunk: the answers one query can get
AnswersFor(field_name) ==
    IF field_name \in OutcomeFields THEN OutcomeAnswers ELSE OracleOutcomes

\* _extract_single_field_from_chunk: what one query on text t returns. The
\* outcome measures are joined and returned as they come; any other value
\* is returned when the validator accepts it against t
SingleResult(field_name, t, answer) ==
    IF answer \in {"outcomes", "value"} THEN ValueIn(t) ELSE None

\* the fields whose value the validator accepted in a query
Accepted(field_name, answer) == IF answer = "value" THEN {field_name} ELSE {}

\* why a query gave no value for a field
CauseOf(answer) ==
    IF answer = "raise" THEN "oracle failure"
    ELSE IF answer = "rejected" THEN "validator rejection"
    ELSE IF answer \in {"not_found", "no outcomes"} THEN "not found"
    ELSE "none"

Query(fields, t, accepted) == [fields |-> fields, text |-> t, accepted |-> accepted]

LoopInit ==
    /\ ExtractorIdle
    /\ persist = Off
    /\ chunker = Off
    /\ mapper = Off
    /\ validator = Off
    /\ merger = Off
    /\ comparator = Off
    /\ store = Off
    /\ analyzer = Off
    /\ tiers = Off
    /\ \E path \in PdfPaths, large \in BOOLEAN, cmp \in BOOLEAN :
         LET c == NewCheckpoint(path, "docA")
             groups == get_optimal_field_groups(_get_pending_fields(c))
         IN  \E g \in DOMAIN groups :
               \E plan \in Plans(groups[g]) :
                  loop = [pc |-> "mark",
                          checkpoint |-> c,
                          field_group |-> groups[g],
                          extraction_plan |-> plan,
                          large |-> large,
                          compare |-> cmp,
                          idx |-> 1,
                          part |-> 1,
                          results |-> <<>>,
                          queries |-> <<>>,
                          cause |-> [f \in Range(groups[g]) |-> "none"]]

LoopFrame ==
    UNCHANGED
        <<extractor_vars, persist, chunker, mapper, validator, merger,
          comparator, store, analyzer, tiers>>

\* extract_from_pdf, lines 177-180: one field of the group goes IN_PROGRESS
LoopMark ==
    /\ loop.pc = "mark"
    /\ loop' = [loop EXCEPT
                  !.checkpoint =
                      update_field_status(@, loop.field_group[loop.idx],
                                          IN_PROGRESS, None, None),
                  !.idx = IF loop.idx = Len(loop.field_group) THEN 1
                          ELSE @ + 1,
                  !.pc = IF loop.idx = Len(loop.field_group) THEN "extract"
                         ELSE "mark"]
    /\ LoopFrame

\* extract_from_pdf, lines 196-203: the identifier found is checked against
\* the file name
Checked(field_name, value, path) ==
    IF field_name = "nct_number" THEN validate_extraction(value, path)
    ELSE value

\* extract_from_pdf, lines 183-194, and _extract_single_field, lines 280-284:
\* the first query for a single field, on its planned chunk or on the whole
\* text; a whole text of more than 60000 characters that gave nothing is
\* searched part by part
LoopExtractSingle ==
    /\ loop.pc = "extract"
    /\ Len(loop.field_group) = 1
    /\ LET field_name == loop.field_group[1]
           planned == field_name \in DOMAIN loop.extraction_plan
           t == IF planned THEN ChunkText(loop.extraction_plan[field_name])
                ELSE "pdf_text"
       IN  \E answer \in AnswersFor(field_name) :
             LET result == SingleResult(field_name, t, answer)
                 search == result = None /\ ~planned /\ loop.large
             IN  loop' =
                    [loop EXCEPT
                       !.queries =
                           Append(@, Query({field_name}, t,
                                           Accepted(field_name, answer))),
                       !.cause[field_name] = CauseOf(answer),
                       !.part = StartIdx(field_name),
                       !.results =
                           IF search THEN <<>>
                           ELSE << <<field_name,
                                     Checked(field_name, result,
                                             loop.checkpoint.pdf_path)>> >>,
                       !.pc = IF search THEN "parts" ELSE "store"]
    /\ LoopFrame

\* ChunkedExtractor.extract_with_chunks, lines 77-97: one part is queried;
\* the first value found is returned, None after the last part
LoopExtractPart ==
    /\ loop.pc = "parts"
    /\ LET field_name == loop.field_group[1]
           t == Parts[loop.part]
       IN  \E answer \in AnswersFor(field_name) :
             LET result == SingleResult(field_name, t, answer)
                 over == result # None \/ loop.part = Len(Parts)
             IN  loop' =
                    [loop EXCEPT
                       !.queries =
                           Append(@, Query({field_name}, t,
                                           Accepted(field_name, answer))),
                       !.cause[field_name] = CauseOf(answer),
                       !.part = IF over THEN @ ELSE @ + 1,
                       !.results =
                           IF over
                           THEN << <<field_name,
                                     Checked(field_name, result,
                                             loop.checkpoint.pdf_path)>> >>
                           ELSE <<>>,
                       !.pc = IF over THEN "store" ELSE "parts"]
    /\ LoopFrame

\* extract_from_pdf, lines 218-226: the chunk of a batch, when the planned
\* fields of the group all have the same chunk; <<>> otherwise
BatchChunk(field_group, extraction_plan) ==
    LET chunk_ids == {extraction_plan[f] :
                         f \in Range(field_group) \cap DOMAIN extraction_plan}
    IN  IF DOMAIN extraction_plan # {} /\ Cardinality(chunk_ids) = 1
        THEN <<CHOOSE chunk_id \in chunk_ids : TRUE>>
        ELSE <<>>

\* extract_from_pdf, lines 216-230, and _extract_batch_fields: one query for
\* the group, on the chunk or on the whole text; a raising call gives None
\* for every field, a parsed answer the fields in the order of its lines,
\* each value kept when the validator accepts it
LoopExtractBatch ==
    /\ loop.pc = "extract"
    /\ Len(loop.field_group) > 1
    /\ LET field_group == loop.field_group
           n == Len(field_group)
           chunk == BatchChunk(field_group, loop.extraction_plan)
           t == IF chunk # <<>> THEN ChunkText(chunk[1]) ELSE "pdf_text"
       IN  \/ loop' =
                [loop EXCEPT
                   !.queries = Append(@, Query(Range(field_group), t, {})),
                   !.cause = [f \in Range(field_group) |-> CauseOf("raise")],
                   !.results = [i \in 1..n |-> <<field_group[i], None>>],
                   !.pc = "store"]
           \/ \E p \in Perms(field_group),
                 answer \in [Range(field_group) -> OracleOutcomes \ {"raise"}] :
                loop' =
                   [loop EXCEPT
                      !.queries =
                          Append(@, Query(Range(field_group), t,
                                          {f \in Range(field_group) :
                                              answer[f] = "value"})),
                      !.cause = [f \in Range(field_group) |->
                                   CauseOf(answer[f])],
                      !.results =
                          [i \in 1..n |->
                             <<field_group[p[i]],
                               SingleResult(field_group[p[i]], t,
                                            answer[field_group[p[i]]])>>],
                      !.pc = "store"]
    /\ LoopFrame

\* extract_from_pdf, lines 205-213 and 232-241: the head result is stored,
\* then compared with the reference record; _compare_field may raise
LoopStore ==
    /\ loop.pc = "store"
    /\ LET field_name == Head(loop.results)[1]
           value == Head(loop.results)[2]
           c == update_field_status(loop.checkpoint, field_name,
                                    ResultStatus(value), value, None)
       IN  \E compare_raises \in BOOLEAN :
             /\ compare_raises => (loop.compare /\ value # None)
             /\ loop' =
                   [loop EXCEPT
                      !.checkpoint = c,
                      !.results = IF compare_raises THEN <<>> ELSE Tail(@),
                      !.idx = 1,
                      !.pc = IF compare_raises THEN "handler"
                             ELSE IF Tail(loop.results) # <<>> THEN "store"
                             ELSE "done"]
    /\ LoopFrame

\* extract_from_pdf, lines 247-255: after an exception in the group, one field
\* of the group is marked FAILED with the exception's text
LoopMarkFailed ==
    /\ loop.pc = "handler"
    /\ loop' = [loop EXCEPT
                  !.checkpoint =
                      update_field_status(@, loop.field_group[loop.idx],
                                          FAILED, None, "exception"),
                  !.cause[loop.field_group[loop.idx]] = "exception",
                  !.idx = IF loop.idx = Len(loop.field_group) THEN 1
                          ELSE @ + 1,
                  !.pc = IF loop.idx = Len(loop.field_group) THEN "done"
                         ELSE "handler"]
    /\ LoopFrame

LoopNext ==
    \/ LoopMark
    \/ LoopExtractSingle
    \/ LoopExtractPart
    \/ LoopExtractBatch
    \/ LoopStore
    \/ LoopMarkFailed

LoopSpec == LoopInit /\ [][LoopNext]_vars

\* the queries that asked for field f, by position
QueriesFor(f) == {i \in DOMAIN loop.queries : f \in loop.queries[i].fields}

\* C22: when the group is done, a field the plan maps to a chunk is FAILED
\* only after a query on its chunk and a later query on the whole text.
C22_FullTextRetried ==
    loop.pc = "done" =>
        \A f \in Range(loop.field_group) \cap DOMAIN loop.extraction_plan :
           loop.checkpoint.fields[f].status = FAILED =>
              \E i, j \in QueriesFor(f) :
                 /\ i < j
                 /\ loop.queries[i].text \in {ChunkText(id) : id \in ChunkIds}
                 /\ loop.queries[j].text = "pdf_text"

\* C23: a field is COMPLETED only with a non-empty value that the validator
\* accepted, for that field, against the text of the query that found it.
C23_CompletedWasValidated ==
    loop.pc # "off" =>
        \A f \in Range(loop.field_group) :
           loop.checkpoint.fields[f].status = COMPLETED =>
              /\ loop.checkpoint.fields[f].value \notin {None, ""}
              /\ \E i \in QueriesFor(f) :
                    /\ f \in loop.queries[i].accepted
                    /\ loop.checkpoint.fields[f].value
                          = ValueIn(loop.queries[i].text)

\* C24: when the group is done, a FAILED field has an error_message, and the
\* message of a field the validator rejected is not the message of a field
\* for which the oracle failed.
C24_FailureExplained ==
    loop.pc = "done" =>
        \A f \in Range(loop.field_group) :
           loop.checkpoint.fields[f].status = FAILED =>
              /\ loop.checkpoint.fields[f].error_message # None
              /\ \A g \in Range(loop.field_group) :
                    (/\ loop.checkpoint.fields[g].status = FAILED
                     /\ loop.cause[f] = "validator rejection"
                     /\ loop.cause[g] = "oracle failure") =>
                        loop.checkpoint.fields[f].error_message
                           # loop.checkpoint.fields[g].error_message

====
